---- MODULE Spec2Model ----
(***************************************************************************)
(* ave3d: OpenGL 4.5 PBR renderer.  Model of the GPU resource wrappers     *)
(* (opengl.hpp), the image loader (image.cpp) and the framebuffer          *)
(* attachment management, as state machines over an abstract GL context.   *)
(*                                                                         *)
(* A member function is an operator on a context record c: c.o is *this,   *)
(* c.other the second object of a move, c.g the GL context and C++ heap.   *)
(* Its value is the context after the call.  A constructor takes the GL    *)
(* context and yields the context [o, g] with the new object.              *)
(***************************************************************************)
EXTENDS Integers, Sequences, FiniteSets, TLC

VARIABLES
    cls,        \* the wrapper class the C++ objects of this run have
    slot,       \* storage of the C++ objects: slot -> object record, or NoObject
    g,          \* GL context and C++ heap: names, GPU objects, delete calls, log
    lastOp,     \* the operation performed by the last step, with its arguments
    allocOps,   \* number of operations so far that count against MaxAllocOps
    image,      \* the shared_ptr<Image> the caller got from Image::fromFile
    app         \* the application: window, settings, the renderer's members

vars == <<cls, slot, g, lastOp, allocOps, image, app>>

(* ------------------------------ bounds --------------------------------- *)
NumSlots    == 2    \* C++ objects of the class under test
MaxAllocOps == 3    \* operations that create GPU objects, attach or resize
MaxDim      == 2    \* widths and heights range over 1..MaxDim
MaxFaces    == 1    \* triangles of a mesh
MaxEvents   == 2    \* input and resize events delivered in a run
MaxInputs   == 4    \* mouse events delivered in a run of the input handlers
MaxCursor   == 1    \* cursor coordinates range over 0..MaxCursor
MaxScrolls  == 13   \* scroll events delivered in a run of the scroll handler

Slots == 1..NumSlots
Dims  == 1..MaxDim

\* widths and heights of a texture: up to the first that is no power of two
TextureDims == 1..(MaxDim + 1)

\* drawable sizes: the smallest one, and those wider or higher than it
Sizes == {sz \in Dims \X Dims : sz[1] = 1 \/ sz[2] = 1}

Max(a, b) == IF a >= b THEN a ELSE b

Range(seq) == {seq[i] : i \in DOMAIN seq}

(* ----------------------------- GL context ------------------------------ *)
(* Names are handed out fresh (never reused) so that a second delete of    *)
(* the same name is visible.  obj maps every live name to the GPU object.  *)

NoPix == [kind |-> "none", bytes |-> <<>>]

\* the contents of storage nothing was written to yet
NoData == [indeterminate |-> TRUE]

GpuObject(type) ==
    [type |-> type, format |-> "", samples |-> 0, w |-> 0, h |-> 0,
     levels |-> 0, pix |-> NoPix, attach |-> <<>>, drawBuffers |-> <<>>,
     readBuffer |-> "", data |-> NoData, params |-> <<>>]

\* the context as created: no names, and the initial values of the GL state
\* (capabilities off, depth writes on, blending ONE/ZERO, nothing bound);
\* calls is the trace of the commands of the frame or constructor in
\* progress; floatLog tells how the build evaluates log(2.f)
GLInit ==
    [floatLog |-> FALSE, next |-> 0, obj |-> <<>>, deleted |-> {}, twice |-> {}, log |-> {},
     loads |-> {}, heap |-> <<>>, nextAddr |-> 0,
     caps |-> {}, depthMask |-> TRUE, blendFunc |-> <<"GL_ONE", "GL_ZERO">>,
     program |-> 0, framebuffer |-> 0, vertexArray |-> 0, ubo |-> <<>>,
     units |-> <<>>, images |-> <<>>, uniforms |-> <<>>,
     viewport |-> <<0, 0>>, clearColor |-> <<0, 0, 0, 0>>,
     pass |-> "", calls |-> <<>>]

Live(gl) == DOMAIN gl.obj

NewId(gl) == gl.next + 1

\* glCreateShader / glCreateProgram / glCreateTextures / glCreateRenderbuffers /
\* glCreateFramebuffers / glCreateBuffers / glCreateVertexArrays
glCreate(gl, type) ==
    [gl EXCEPT !.next = @ + 1,
               !.obj  = [i \in DOMAIN gl.obj \cup {gl.next + 1} |->
                            IF i = gl.next + 1 THEN GpuObject(type) ELSE gl.obj[i]]]

\* glDelete*: the name 0 is silently ignored; every other name is recorded
glDelete(gl, id) ==
    IF id = 0 THEN gl
    ELSE [gl EXCEPT !.obj     = [i \in DOMAIN gl.obj \ {id} |-> gl.obj[i]],
                    !.twice   = IF id \in gl.deleted THEN @ \cup {id} ELSE @,
                    !.deleted = @ \cup {id}]

\* std::cout << "ERROR..."
Log(gl, msg) == [gl EXCEPT !.log = @ \cup {msg}]

\* glTextureStorage2D / glNamedRenderbufferStorage(Multisample)
glStorage(gl, id, format, w, h, levels, samples) ==
    IF id \notin DOMAIN gl.obj THEN gl
    ELSE [gl EXCEPT !.obj[id].format = format, !.obj[id].w = w, !.obj[id].h = h,
                    !.obj[id].levels = levels, !.obj[id].samples = samples]

\* glTextureSubImage2D
glTextureSubImage2D(gl, id, pix) ==
    IF id \notin DOMAIN gl.obj THEN gl ELSE [gl EXCEPT !.obj[id].pix = pix]

\* glNamedFramebufferTexture / glNamedFramebufferRenderbuffer
glAttach(gl, fb, attachment, id) ==
    IF fb \notin DOMAIN gl.obj THEN gl
    ELSE [gl EXCEPT !.obj[fb].attach =
            [a \in DOMAIN gl.obj[fb].attach \cup {attachment} |->
                IF a = attachment THEN id ELSE gl.obj[fb].attach[a]]]

\* glNamedFramebufferDrawBuffers
glDrawBuffers(gl, fb, buffers) ==
    IF fb \notin DOMAIN gl.obj THEN gl ELSE [gl EXCEPT !.obj[fb].drawBuffers = buffers]

(* ------------------------------ contexts ------------------------------- *)
NoObject == [cls |-> "none"]

\* no application: the objects of a run are used on their own
NoApplication == [running |-> FALSE]

Ctx(o, gl) == [o |-> o, g |-> gl]

\* the member f of *this as the object of a call
Member(c, f) == [o |-> c.o[f], g |-> c.g]

\* the members f of *this and of Other as the two objects of a move
MemberPair(c, f) == [o |-> c.o[f], other |-> c.other[f], g |-> c.g]

\* the context c after a call on member f came back with context m
PutMember(c, f, m) == [c EXCEPT !.o[f] = m.o, !.g = m.g]

PutMemberPair(c, f, m) == [c EXCEPT !.o[f] = m.o, !.other[f] = m.other, !.g = m.g]

\* std::swap(field, Other.field) for every field of the set fields
Swap(c, fields) ==
    [c EXCEPT !.o     = [f \in DOMAIN c.o |->
                            IF f \in fields THEN c.other[f] ELSE c.o[f]],
              !.other = [f \in DOMAIN c.other |->
                            IF f \in fields THEN c.o[f] ELSE c.other[f]]]

(* ------------------------------ NonCopyable ---------------------------- *)
\* virtual void Release() {}
NonCopyableRelease(c) == c

\* virtual ~NonCopyable() { Release(); }: inside a base-class destructor the
\* call resolves to NonCopyable::Release, whatever the derived class overrides
NonCopyableDtor(c) == NonCopyableRelease(c)

(* -------------------------------- Shader ------------------------------- *)
\* Shader(ShaderType, ShaderSourceStr); success is GL_COMPILE_STATUS
ShaderCtor(success, gl) ==
    [o |-> [cls |-> "Shader", mShader |-> NewId(gl)],
     g |-> IF success THEN glCreate(gl, "shader")
           ELSE Log(glCreate(gl, "shader"), "ERROR:shader compilation failed")]

\* a move constructor that forgets Other.mShader = 0
ShaderMoveCtorKeepingSource(c) ==
    [o |-> [cls |-> "Shader", mShader |-> c.other.mShader],
     other |-> c.other,
     g |-> c.g]

ShaderMoveCtor(c) ==
    [o |-> [cls |-> "Shader", mShader |-> c.other.mShader],
     other |-> [c.other EXCEPT !.mShader = 0],
     g |-> c.g]

ShaderIsUsable(o) == 0 # o.mShader

ShaderRelease(c) == [c EXCEPT !.o.mShader = 0, !.g = glDelete(@, c.o.mShader)]

\* same: Other is this very object
ShaderMoveAssign(c, same) ==
    IF same THEN c ELSE Swap(ShaderRelease(c), {"mShader"})

\* Shader declares no destructor: only ~NonCopyable runs
ShaderDtor(c) == NonCopyableDtor(c)

(* ---------------------------- ShaderProgram ---------------------------- *)
ShaderProgramDefaultCtor(gl) ==
    [o |-> [cls |-> "ShaderProgram", mProgram |-> 0], g |-> gl]

ShaderProgramMoveCtor(c) ==
    [o |-> [cls |-> "ShaderProgram", mProgram |-> c.other.mProgram],
     other |-> [c.other EXCEPT !.mProgram = 0],
     g |-> c.g]

ShaderProgramIsUsable(o) == 0 # o.mProgram

ShaderProgramRelease(c) == [c EXCEPT !.o.mProgram = 0, !.g = glDelete(@, c.o.mProgram)]

ShaderProgramMoveAssign(c, same) ==
    IF same THEN c ELSE Swap(ShaderProgramRelease(c), {"mProgram"})

\* the shaders of ShaderList, built one after the other into the local
\* std::vector<Shader>; compiled[i] is the compile status of the i-th
RECURSIVE BuildShaders(_, _, _)
BuildShaders(compiled, i, acc) ==
    IF i > Len(compiled) THEN acc
    ELSE LET r == ShaderCtor(compiled[i], acc.g)
         IN  BuildShaders(compiled, i + 1, [list |-> Append(acc.list, r.o), g |-> r.g])

\* glLinkProgram and the report of a failed link
LinkProgram(linked, acc) ==
    IF linked THEN acc
    ELSE [acc EXCEPT !.g = Log(@, "ERROR: shader program compilation failed")]

\* the local vector goes out of scope: every element is destroyed
RECURSIVE DestroyShaders(_, _)
DestroyShaders(acc, i) ==
    IF i > Len(acc.list) THEN acc.g
    ELSE DestroyShaders([acc EXCEPT !.g = ShaderDtor(Ctx(acc.list[i], acc.g)).g], i + 1)

\* ShaderProgram(const List &): compiled is the compile status of each source,
\* linked the link status
ShaderProgramCtor(compiled, linked, gl) ==
    [o |-> [cls |-> "ShaderProgram", mProgram |-> NewId(gl)],
     g |-> DestroyShaders(
               LinkProgram(linked,
                   BuildShaders(compiled, 1,
                                [list |-> <<>>, g |-> glCreate(gl, "program")])), 1)]

ShaderProgramDtor(c) == NonCopyableDtor(c)

(* ------------------------------ RenderTarget --------------------------- *)
\* RenderTarget::Release: resets the fields, frees nothing
RenderTargetRelease(c) == [c EXCEPT !.o.mId = 0, !.o.mWidth = 0, !.o.mHeight = 0]

RenderTargetIsUsable(o) == 0 # o.mId

\* ~RenderTarget() override { Release(); } then ~NonCopyable
RenderTargetDtor(c) == NonCopyableDtor(RenderTargetRelease(c))

(* -------------------------------- Texture ------------------------------ *)
RECURSIVE FloorLog2(_)
FloorLog2(n) == IF n <= 1 THEN 0 ELSE 1 + FloorLog2(n \div 2)

\* n is a power of two
RECURSIVE IsPowerOfTwo(_)
IsPowerOfTwo(n) ==
    IF n <= 1 THEN n = 1 ELSE n % 2 = 0 /\ IsPowerOfTwo(n \div 2)

\* the integer part of log(n) / log(2.f) for n >= 1. log(n) is a double.
\* Where log(2.f) is the double logarithm of 2.0 the quotient has the integer
\* part of log2(n). Where the float overload is chosen (floatLog), log(2.f) is
\* the float nearest ln 2, 0.693147182..., larger than ln 2 by 2.7e-9 of it:
\* the quotient of 2^k, k >= 1, falls below k, and that of any other
\* n < 2^24 keeps its integer part
IntLog2Quotient(n, floatLog) ==
    IF floatLog /\ n >= 2 /\ IsPowerOfTwo(n) THEN FloorLog2(n) - 1 ELSE FloorLog2(n)

\* int(1. + log(std::max(Width, Height)) / log(2.f)); for max = 0 the
\* conversion of -inf to int is undefined: undef is the value the build yields
NumMipLevels(Width, Height, undef, floatLog) ==
    IF Max(Width, Height) <= 0 THEN undef
    ELSE 1 + IntLog2Quotient(Max(Width, Height), floatLog)

\* a default constructor that creates a texture name
TextureDefaultCtorAllocating(gl) ==
    [o |-> [cls |-> "Texture", mId |-> NewId(gl), mWidth |-> 0, mHeight |-> 0,
            mLevels |-> 0],
     g |-> glCreate(gl, "texture")]

TextureDefaultCtor(gl) ==
    [o |-> [cls |-> "Texture", mId |-> 0, mWidth |-> 0, mHeight |-> 0, mLevels |-> 0],
     g |-> gl]

\* Texture(GLenum Target)
TextureTargetCtor(gl) ==
    [o |-> [cls |-> "Texture", mId |-> NewId(gl), mWidth |-> 0, mHeight |-> 0,
            mLevels |-> 0],
     g |-> glCreate(gl, "texture")]

\* the value createTexture gives mLevels
TextureLevels(Width, Height, Levels, undef, floatLog) ==
    IF Levels > 0 THEN Levels ELSE NumMipLevels(Width, Height, undef, floatLog)

\* Texture::createTexture, on a Texture whose base was default-constructed
createTexture(Width, Height, InternalFormat, Levels, undef, gl) ==
    [o |-> [cls |-> "Texture", mId |-> NewId(gl), mWidth |-> Width,
            mHeight |-> Height,
            mLevels |-> TextureLevels(Width, Height, Levels, undef, gl.floatLog)],
     g |-> glStorage(glCreate(gl, "texture"), NewId(gl), InternalFormat, Width, Height,
                     TextureLevels(Width, Height, Levels, undef, gl.floatLog), 0)]

\* Texture(Target, Width, Height, InternalFormat, Levels = 0)
TextureSizedCtor(Width, Height, InternalFormat, Levels, undef, gl) ==
    createTexture(Width, Height, InternalFormat, Levels, undef, gl)

\* glTextureSubImage2D(mId, ..., data) in a constructor body
TextureUpload(c, pix) == [c EXCEPT !.g = glTextureSubImage2D(@, c.o.mId, pix)]

\* Texture(Target, Width, Height, Format, InternalFormat, Levels, Type, DataPtr)
TextureDataCtor(Width, Height, InternalFormat, Levels, bytes, undef, gl) ==
    TextureUpload(createTexture(Width, Height, InternalFormat, Levels, undef, gl),
                  [kind |-> "bytes", bytes |-> bytes])

\* Texture(const std::shared_ptr<Image>& Img, Format, InternalFormat, Levels = 0)
TextureImageCtor(Img, InternalFormat, Levels, undef, gl) ==
    TextureUpload(createTexture(Img.m_width, Img.m_height, InternalFormat, Levels,
                                undef, gl),
                  [kind |-> Img.m_pixels, bytes |-> <<>>])

\* Texture::Storage
TextureStorage(c, InternalFormat, Width, Height, Levels) ==
    IF 0 = c.o.mWidth /\ 0 = c.o.mHeight
    THEN [c EXCEPT !.o.mWidth = Width, !.o.mHeight = Height, !.o.mLevels = Levels,
                   !.g = glStorage(@, c.o.mId, InternalFormat, Width, Height, Levels, 0)]
    ELSE c

TextureRelease(c) ==
    IF 0 # c.o.mId
    THEN [RenderTargetRelease([c EXCEPT !.o.mId = 0, !.g = glDelete(@, c.o.mId)])
            EXCEPT !.o.mLevels = 0]
    ELSE [c EXCEPT !.o.mLevels = 0]

\* ~Texture() override { Release(); } then ~RenderTarget
TextureDtor(c) == RenderTargetDtor(TextureRelease(c))

(* ------------------------------ Renderbuffer --------------------------- *)
\* Renderbuffer(): glCreateRenderbuffers(1, &mId)
RenderbufferCtor(gl) ==
    [o |-> [cls |-> "Renderbuffer", mId |-> NewId(gl), mWidth |-> 0, mHeight |-> 0],
     g |-> glCreate(gl, "renderbuffer")]

RenderbufferStorage(c, Format, Width, Height, Samples) ==
    [c EXCEPT !.o.mWidth = Width, !.o.mHeight = Height,
              !.g = glStorage(@, c.o.mId, Format, Width, Height, 0,
                              IF Samples > 0 THEN Samples ELSE 0)]

RenderbufferRelease(c) ==
    IF 0 # c.o.mId
    THEN RenderTargetRelease([c EXCEPT !.o.mId = 0, !.g = glDelete(@, c.o.mId)])
    ELSE c

RenderbufferDtor(c) == RenderTargetDtor(RenderbufferRelease(c))

(* ----------------------- Environment::Release -------------------------- *)
\* member.Release() for a Texture member of *this
ReleaseMember(c, f) == PutMember(c, f, TextureRelease(Member(c, f)))

EnvironmentRelease(c) ==
    ReleaseMember(ReleaseMember(TextureRelease(c), "mIrmap"), "mSpBrdfLut")

\* a call of the virtual Release() on a render target, by its dynamic class
VirtualRelease(c) ==
    CASE c.o.cls = "Texture"      -> TextureRelease(c)
      [] c.o.cls = "Environment"  -> EnvironmentRelease(c)
      [] c.o.cls = "Renderbuffer" -> RenderbufferRelease(c)

(* ------------------- moves of the render-target classes ---------------- *)
\* a move constructor that forgets to reset Other
RenderTargetMoveCtorKeepingSource(c) ==
    [o |-> [mId |-> c.other.mId, mWidth |-> c.other.mWidth, mHeight |-> c.other.mHeight],
     other |-> c.other,
     g |-> c.g]

\* RenderTarget(RenderTarget &&Other): the fields this base contributes
RenderTargetMoveCtor(c) ==
    [o |-> [mId |-> c.other.mId, mWidth |-> c.other.mWidth, mHeight |-> c.other.mHeight],
     other |-> [c.other EXCEPT !.mId = 0, !.mWidth = 0, !.mHeight = 0],
     g |-> c.g]

RenderTargetMoveAssign(c, same) ==
    IF same THEN c ELSE Swap(VirtualRelease(c), {"mId", "mWidth", "mHeight"})

\* Texture(Texture &&Other) : RenderTarget(std::move(Other)), mLevels(Other.mLevels)
TextureMoveCtor(c) ==
    LET b == RenderTargetMoveCtor(c)
    IN  [o |-> [cls |-> "Texture", mId |-> b.o.mId, mWidth |-> b.o.mWidth,
                mHeight |-> b.o.mHeight, mLevels |-> b.other.mLevels],
         other |-> [b.other EXCEPT !.mLevels = 0],
         g |-> b.g]

\* a move assignment that swaps without releasing first
TextureMoveAssignNoRelease(c, same) ==
    IF same THEN c ELSE Swap(c, {"mId", "mWidth", "mHeight", "mLevels"})

TextureMoveAssign(c, same) ==
    IF same THEN c
    ELSE Swap(RenderTargetMoveAssign(VirtualRelease(c), FALSE), {"mLevels"})

RenderbufferMoveCtor(c) ==
    LET b == RenderTargetMoveCtor(c)
    IN  [o |-> [cls |-> "Renderbuffer", mId |-> b.o.mId, mWidth |-> b.o.mWidth,
                mHeight |-> b.o.mHeight],
         other |-> b.other,
         g |-> b.g]

RenderbufferMoveAssign(c, same) ==
    IF same THEN c ELSE RenderTargetMoveAssign(VirtualRelease(c), FALSE)

\* member = Texture{...}: the temporary of context t is move-assigned to the
\* member m (context a afterwards) and then destroyed
DestroyOther(a) == [o |-> a.o, g |-> TextureDtor(Ctx(a.other, a.g)).g]

AssignTemporary(m, t) ==
    DestroyOther(TextureMoveAssign([o |-> m, other |-> t.o, g |-> t.g], FALSE))

\* member = std::move(Other.member) for a Texture member of *this
MoveAssignMember(c, f) == PutMemberPair(c, f, TextureMoveAssign(MemberPair(c, f), FALSE))

\* member(std::move(Other.member)) for a Texture member of *this
MoveCtorMember(c, f) == PutMemberPair(c, f, TextureMoveCtor(MemberPair(c, f)))

\* member.~Texture() for a Texture member of *this
DestroyMember(c, f) == PutMember(c, f, TextureDtor(Member(c, f)))

(* --------------------------------- Image ------------------------------- *)
\* what stbi_is_hdr and stbi_load(f) find on disk for a file name
Decode(filename) ==
    CASE filename = "environment.hdr" ->
            [hdr |-> TRUE, ok |-> TRUE, w |-> 2, h |-> 1, comp |-> 3]
      [] filename = "broken.hdr" ->
            [hdr |-> TRUE, ok |-> FALSE, w |-> 0, h |-> 0, comp |-> 0]
      [] filename = "textures/a.png" ->
            [hdr |-> FALSE, ok |-> TRUE, w |-> 2, h |-> 2, comp |-> 4]
      [] OTHER ->
            [hdr |-> FALSE, ok |-> FALSE, w |-> 0, h |-> 0, comp |-> 0]

\* Image::Image() initialises every member but m_pixels: junk is the
\* indeterminate value the fresh object holds there ("null" or "garbage")
ImageCtor(junk) ==
    [m_width |-> 0, m_height |-> 0, m_channels |-> 0, m_hdr |-> FALSE,
     m_pixels |-> junk]

\* the two branches of fromFile: the members are written on a successful decode
ImageDecoded(img, f) ==
    IF f.ok
    THEN [img EXCEPT !.m_width = f.w, !.m_height = f.h, !.m_channels = f.comp,
                     !.m_pixels = "decoded", !.m_hdr = f.hdr]
    ELSE img

\* if (channels > 0) image->m_channels = channels;
ImageChannels(img, channels) ==
    IF channels > 0 THEN [img EXCEPT !.m_channels = channels] ELSE img

\* if (!image->m_pixels) throw std::runtime_error(...); return image;
ImageChecked(img, filename, gl) ==
    [thrown |-> (img.m_pixels = "null"),
     img    |-> img,
     g      |-> [gl EXCEPT !.loads = @ \cup {filename}]]

\* Image::fromFile: thrown = the std::runtime_error was raised
ImageFromFile(filename, channels, junk, gl) ==
    ImageChecked(ImageChannels(ImageDecoded(ImageCtor(junk), Decode(filename)), channels),
                 filename, gl)

\* a std::unordered_map with key k set to v
MapPut(map, k, v) == [x \in DOMAIN map \cup {k} |-> IF x = k THEN v ELSE map[x]]

(* ------------------ GL state a frame sets and draws with --------------- *)
\* a context that ignores glEnable, glDisable or glDepthMask
glEnableIgnored(gl, cap) == gl

glDisableIgnored(gl, cap) == gl

glDepthMaskIgnored(gl, flag) == gl

\* a context in which depth writes, once disabled, stay disabled
glDepthMaskOffOnly(gl, flag) == IF flag THEN gl ELSE [gl EXCEPT !.depthMask = FALSE]

glEnable(gl, cap) == [gl EXCEPT !.caps = @ \cup {cap}]

glDisable(gl, cap) == [gl EXCEPT !.caps = @ \ {cap}]

glDepthMask(gl, flag) == [gl EXCEPT !.depthMask = flag]

glBlendFunc(gl, sfactor, dfactor) == [gl EXCEPT !.blendFunc = <<sfactor, dfactor>>]

\* a name that is no object is GL_INVALID_VALUE and changes nothing
glUseProgram(gl, program) ==
    IF program # 0 /\ program \notin DOMAIN gl.obj THEN gl
    ELSE [gl EXCEPT !.program = program]

glBindFramebuffer(gl, id) == [gl EXCEPT !.framebuffer = id]

glBindVertexArray(gl, id) == [gl EXCEPT !.vertexArray = id]

glViewport(gl, w, h) == [gl EXCEPT !.viewport = <<w, h>>]

glBindTextureUnit(gl, unit, id) == [gl EXCEPT !.units = MapPut(@, unit, id)]

glBindBufferBase(gl, index, id) == [gl EXCEPT !.ubo = MapPut(@, index, id)]

glNamedBufferSubData(gl, id, data) ==
    IF id \notin DOMAIN gl.obj THEN gl ELSE [gl EXCEPT !.obj[id].data = data]

glNamedFramebufferReadBuffer(gl, fb, attachment) ==
    IF fb \notin DOMAIN gl.obj THEN gl ELSE [gl EXCEPT !.obj[fb].readBuffer = attachment]

\* the size of the storage of the object named id
StorageSize(gl, id) ==
    IF id \in DOMAIN gl.obj THEN <<gl.obj[id].w, gl.obj[id].h>> ELSE <<0, 0>>

\* the sizes of the storage attached to the framebuffer objects
AttachedSizes(gl) ==
    UNION {{StorageSize(gl, gl.obj[f].attach[a]) : a \in DOMAIN gl.obj[f].attach} :
              f \in {i \in DOMAIN gl.obj : gl.obj[i].type = "framebuffer"}}

\* the contents of the buffer bound at each uniform binding point
BoundData(gl) ==
    [i \in DOMAIN gl.ubo |->
        IF gl.ubo[i] \in DOMAIN gl.obj THEN gl.obj[gl.ubo[i]].data ELSE NoData]

\* the colour buffer a framebuffer object is read from and those it is
\* drawn to, as the context holds them
ReadBufferOf(gl, fb) == IF fb \in DOMAIN gl.obj THEN gl.obj[fb].readBuffer ELSE ""

DrawBuffersOf(gl, fb) == IF fb \in DOMAIN gl.obj THEN gl.obj[fb].drawBuffers ELSE <<>>

\* the state a command is executed in; drawBuffers is the list of the
\* framebuffer bound
Snapshot(gl) ==
    [caps |-> gl.caps, depthMask |-> gl.depthMask, blendFunc |-> gl.blendFunc,
     program |-> gl.program, framebuffer |-> gl.framebuffer, ubo |-> gl.ubo,
     drawBuffers |-> DrawBuffersOf(gl, gl.framebuffer),
     data |-> BoundData(gl), sizes |-> AttachedSizes(gl), pass |-> gl.pass]

\* a command that draws, clears, copies, rebinds or presents: it goes to the
\* trace of the frame with the state it is executed in; host and gpu, the two
\* copies of the renderer's uniform data, are noted by the renderer
Call(gl, name, args) ==
    [gl EXCEPT !.calls = Append(@, [call |-> name, args |-> args,
                                    state |-> Snapshot(gl), noted |-> FALSE,
                                    host |-> NoData, gpu |-> NoData])]

\* glClear(mask): the buffers of mask are cleared in the framebuffer bound,
\* the depth buffer only while depth writes are enabled and only where the
\* framebuffer has one; written is what the command clears
glClear(gl, mask) ==
    Call(gl, "glClear",
         [mask |-> mask,
          written |->
              {b \in mask :
                  b = "GL_DEPTH_BUFFER_BIT" =>
                      /\ gl.depthMask
                      /\ gl.framebuffer \in DOMAIN gl.obj
                      /\ "GL_DEPTH_ATTACHMENT" \in DOMAIN gl.obj[gl.framebuffer].attach}])

\* glNamedFramebufferDrawBuffer(fb, buf): the one buffer fragment colour 0 is
\* written to, every other draw buffer being GL_NONE
glNamedFramebufferDrawBuffer(gl, fb, buf) == glDrawBuffers(gl, fb, <<buf>>)

\* glBlitNamedFramebuffer(src, dst, 0, 0, srcX1, srcY1, 0, 0, dstX1, dstY1,
\* mask, filter): the rectangle of the read buffer of src goes to the draw
\* buffers of dst; read and draw are those selections when it is issued
glBlitNamedFramebuffer(gl, src, dst, srcP1, dstP1, mask, filter) ==
    Call(gl, "glBlitNamedFramebuffer",
         [src |-> src, dst |-> dst,
          read |-> ReadBufferOf(gl, src), draw |-> DrawBuffersOf(gl, dst),
          srcP1 |-> srcP1, dstP1 |-> dstP1, mask |-> mask, filter |-> filter])

(* ---------------- GL commands of the compute passes -------------------- *)
\* glBindImageTexture(Unit, id, Level, Layered, Layer, Access, Format): a name
\* that is no texture and a negative level are GL_INVALID_VALUE and change
\* nothing; a level the texture does not have is accepted here and makes the
\* image unit invalid for the shader
glBindImageTexture(gl, Unit, id, Level, Layered, Access, Format) ==
    IF (id # 0 /\ id \notin DOMAIN gl.obj) \/ Level < 0 THEN gl
    ELSE [gl EXCEPT !.images = MapPut(@, Unit, [texture |-> id, level |-> Level,
                                                layered |-> Layered, access |-> Access,
                                                format |-> Format])]

\* glProgramUniform1f(program, location, v0)
glProgramUniform1f(gl, program, location, v0) ==
    IF program \notin DOMAIN gl.obj THEN gl
    ELSE [gl EXCEPT !.uniforms =
              MapPut(@, program,
                     MapPut(IF program \in DOMAIN @ THEN @[program] ELSE <<>>,
                            location, v0))]

\* what is bound at a texture unit or at an image unit, if anything
UnitTexture(gl, unit) == IF unit \in DOMAIN gl.units THEN gl.units[unit] ELSE 0

NoImageBinding ==
    [texture |-> 0, level |-> 0, layered |-> FALSE, access |-> "", format |-> ""]

UnitImage(gl, unit) == IF unit \in DOMAIN gl.images THEN gl.images[unit] ELSE NoImageBinding

\* the image unit names a level its texture has
ImageComplete(gl, im) ==
    im.texture \in DOMAIN gl.obj /\ im.level >= 0 /\ im.level < gl.obj[im.texture].levels

\* the storage of the object named id is written by the GPU
Computed(gl, id) ==
    [gl EXCEPT !.obj[id].pix = [kind |-> "computed", bytes |-> <<>>]]

\* glDispatchCompute: the program in use runs over the grid, reading the
\* texture of unit 0 and writing the image of unit 0 when that is complete
glDispatchCompute(gl, x, y, z) ==
    Call(IF gl.program # 0 /\ x * y * z > 0 /\ ImageComplete(gl, UnitImage(gl, 0))
         THEN Computed(gl, UnitImage(gl, 0).texture) ELSE gl,
         "glDispatchCompute",
         [groups |-> <<x, y, z>>, texture |-> UnitTexture(gl, 0),
          image |-> UnitImage(gl, 0),
          complete |-> ImageComplete(gl, UnitImage(gl, 0)),
          uniforms |-> IF gl.program \in DOMAIN gl.uniforms
                       THEN gl.uniforms[gl.program] ELSE <<>>])

glGenerateTextureMipmap(gl, id) == Call(gl, "glGenerateTextureMipmap", [texture |-> id])

\* glCopyImageSubData(src, ..., SrcLevel, ..., dst, ..., DstLevel, ..., w, h, depth)
glCopyImageSubData(gl, src, SrcLevel, dst, DstLevel, w, h, depth) ==
    Call(IF src \in DOMAIN gl.obj /\ dst \in DOMAIN gl.obj
         THEN [gl EXCEPT !.obj[dst].pix = gl.obj[src].pix] ELSE gl,
         "glCopyImageSubData",
         [src |-> src, srcLevel |-> SrcLevel, dst |-> dst, dstLevel |-> DstLevel,
          size |-> <<w, h, depth>>])

glTextureParameteri(gl, id, pname, param) ==
    IF id \notin DOMAIN gl.obj THEN gl ELSE [gl EXCEPT !.obj[id].params = MapPut(@, pname, param)]

\* the commands the context has executed when glFinish returns: what the
\* caller can tell a later command by
Issued(gl) ==
    [next |-> gl.next, deleted |-> gl.deleted, program |-> gl.program,
     units |-> gl.units, images |-> gl.images, uniforms |-> gl.uniforms,
     commands |-> Len(gl.calls) + 1]

\* a constructor that does not wait for the device
glFinishSkipped(gl) == gl

glFinish(gl) == Call(gl, "glFinish", Issued(gl))

(* ------------- member functions the compute passes call ---------------- *)
\* ShaderProgram::Use
ShaderProgramUse(c) ==
    IF ShaderProgramIsUsable(c.o) THEN [c EXCEPT !.g = glUseProgram(@, c.o.mProgram)]
    ELSE c

\* ShaderProgram::DispatchCompute (static)
ShaderProgramDispatchCompute(gl, x, y, z) == glDispatchCompute(gl, x, y, z)

\* ShaderProgram::SetFloat
ShaderProgramSetFloat(c, location, v0) ==
    [c EXCEPT !.g = glProgramUniform1f(@, c.o.mProgram, location, v0)]

\* Texture::BindTextureUnit
TextureBindTextureUnit(c, unit) == [c EXCEPT !.g = glBindTextureUnit(@, unit, c.o.mId)]

\* Texture::BindImageTexture
TextureBindImageTexture(c, Unit, Level, Layered, Access, Format) ==
    [c EXCEPT !.g = glBindImageTexture(@, Unit, c.o.mId, Level, Layered, Access, Format)]

\* Texture::GenerateMipmap
TextureGenerateMipmap(c) == [c EXCEPT !.g = glGenerateTextureMipmap(@, c.o.mId)]

\* Texture::CopyImageSubData: the whole level, mWidth x mHeight x SrcDepth
TextureCopyImageSubData(c, SrcLevel, DstTex, DstLevel, SrcDepth) ==
    [c EXCEPT !.g = glCopyImageSubData(@, c.o.mId, SrcLevel, DstTex.mId, DstLevel,
                                       c.o.mWidth, c.o.mHeight, SrcDepth)]

\* Texture::SetWrap
TextureSetWrap(c, WrapS, WrapT) ==
    [c EXCEPT !.g = glTextureParameteri(
                        glTextureParameteri(@, c.o.mId, "GL_TEXTURE_WRAP_S", WrapS),
                        c.o.mId, "GL_TEXTURE_WRAP_T", WrapT)]

(* ------------------------------ Environment ---------------------------- *)
kEnvMapSize        == 1024
kIrradianceMapSize == 32
kBRDF_LUT_Size     == 256

\* a derived Environment object around its Texture base sub-object
AsEnvironment(tex, irmap, lut) ==
    [cls |-> "Environment", mId |-> tex.mId, mWidth |-> tex.mWidth,
     mHeight |-> tex.mHeight, mLevels |-> tex.mLevels,
     mIrmap |-> irmap, mSpBrdfLut |-> lut]

\* the derived part of an Environment whose base is constructed: the two
\* Texture members, default-constructed
EnvironmentMembers(c) ==
    [c EXCEPT !.o = AsEnvironment(c.o, TextureDefaultCtor(c.g).o, TextureDefaultCtor(c.g).o)]

EnvironmentDefaultCtor(gl) == EnvironmentMembers(TextureDefaultCtor(gl))

\* Texture(std::move(Other)), mIrmap(std::move(Other.mIrmap)),
\* mSpBrdfLut(std::move(Other.mSpBrdfLut))
EnvironmentMoveCtor(c) ==
    MoveCtorMember(MoveCtorMember(EnvironmentMembers(TextureMoveCtor(c)), "mIrmap"),
                   "mSpBrdfLut")

EnvironmentMoveAssign(c, same) ==
    IF same THEN c
    ELSE MoveAssignMember(
             MoveAssignMember(TextureMoveAssign(VirtualRelease(c), FALSE), "mIrmap"),
             "mSpBrdfLut")

\* the statements of Environment(const std::shared_ptr<Image>& Img), in
\* program order; the locals are destroyed at the end of the scope, last
\* declared first
EnvironmentBody ==
    <<[op |-> "Texture",          var |-> "envTextureEquirect"],
      [op |-> "Texture",          var |-> "envTextureUnfiltered"],
      [op |-> "ShaderProgram",    var |-> "equirectToCubeProgram"],
      [op |-> "Use",              var |-> "equirectToCubeProgram"],
      [op |-> "BindTextureUnit",  var |-> "envTextureEquirect"],
      [op |-> "BindImageTexture", var |-> "envTextureUnfiltered", layered |-> TRUE,
                                  format |-> "GL_RGBA16F"],
      [op |-> "DispatchCompute",  var |-> "envTextureUnfiltered", z |-> 6],
      [op |-> "Release",          var |-> "envTextureEquirect"],
      [op |-> "Release",          var |-> "equirectToCubeProgram"],
      [op |-> "GenerateMipmap",   var |-> "envTextureUnfiltered"],
      [op |-> "ShaderProgram",    var |-> "spmapProgram"],
      [op |-> "CopyImageSubData", var |-> "envTextureUnfiltered"],
      [op |-> "Use",              var |-> "spmapProgram"],
      [op |-> "BindTextureUnit",  var |-> "envTextureUnfiltered"],
      [op |-> "for",              var |-> "spmapProgram"],
      [op |-> "Release",          var |-> "spmapProgram"],
      [op |-> "Release",          var |-> "envTextureUnfiltered"],
      [op |-> "Assign",           var |-> "mIrmap"],
      [op |-> "ShaderProgram",    var |-> "irmapProgram"],
      [op |-> "Use",              var |-> "irmapProgram"],
      [op |-> "BindTextureUnit",  var |-> "this"],
      [op |-> "BindImageTexture", var |-> "mIrmap", layered |-> TRUE,
                                  format |-> "GL_RGBA16F"],
      [op |-> "DispatchCompute",  var |-> "mIrmap", z |-> 6],
      [op |-> "Release",          var |-> "irmapProgram"],
      [op |-> "Assign",           var |-> "mSpBrdfLut"],
      [op |-> "SetWrap",          var |-> "mSpBrdfLut"],
      [op |-> "ShaderProgram",    var |-> "spBRDFProgram"],
      [op |-> "Use",              var |-> "spBRDFProgram"],
      [op |-> "BindImageTexture", var |-> "mSpBrdfLut", layered |-> FALSE,
                                  format |-> "GL_RG16F"],
      [op |-> "DispatchCompute",  var |-> "mSpBrdfLut", z |-> 1],
      [op |-> "Release",          var |-> "spBRDFProgram"],
      [op |-> "glFinish",         var |-> "this"],
      [op |-> "Destroy",          var |-> "spBRDFProgram"],
      [op |-> "Destroy",          var |-> "irmapProgram"],
      [op |-> "Destroy",          var |-> "spmapProgram"],
      [op |-> "Destroy",          var |-> "equirectToCubeProgram"],
      [op |-> "Destroy",          var |-> "envTextureUnfiltered"],
      [op |-> "Destroy",          var |-> "envTextureEquirect"]>>

EnvironmentLocals ==
    {EnvironmentBody[i].var : i \in DOMAIN EnvironmentBody} \ {"this", "mIrmap", "mSpBrdfLut"}

\* the local variable v as the object of a call, and the context after it
Local(e, v) == [o |-> e.local[v], g |-> e.g]

PutLocal(e, v, r) == [e EXCEPT !.local[v] = r.o, !.g = r.g]

\* the object a statement names: *this, a member of it, or a local
Named(e, v) ==
    [o |-> IF v = "this" THEN e.o
           ELSE IF v \in {"mIrmap", "mSpBrdfLut"} THEN e.o[v] ELSE e.local[v],
     g |-> e.g]

\* a const member function was called: only the context changes
Called(e, r) == [e EXCEPT !.g = r.g]

\* the Texture a statement of the body constructs
EnvironmentTexture(v, Img, gl) ==
    CASE v = "envTextureEquirect" ->
            TextureImageCtor(Img, "GL_RGB16F", 1, 0, gl)
      [] v = "envTextureUnfiltered" ->
            TextureSizedCtor(kEnvMapSize, kEnvMapSize, "GL_RGBA16F", 0, 0, gl)
      [] v = "mIrmap" ->
            TextureSizedCtor(kIrradianceMapSize, kIrradianceMapSize, "GL_RGBA16F", 1, 0, gl)
      [] v = "mSpBrdfLut" ->
            TextureSizedCtor(kBRDF_LUT_Size, kBRDF_LUT_Size, "GL_RG16F", 1, 0, gl)

\* level * deltaRoughness with deltaRoughness = 1.0f / glm::max(float(Levels - 1), 1.0f),
\* kept as the fraction it approximates
\* a step of 1 / Levels
RoughnessByLevels(level, Levels) == [num |-> level, den |-> Levels]

Roughness(level, Levels) == [num |-> level, den |-> Max(Levels - 1, 1)]

\* one iteration of the loop of the prefilter pass
PrefilterLevel(e, level, size) ==
    Called(e,
        [g |-> ShaderProgramDispatchCompute(
                   ShaderProgramSetFloat(
                       Local(Called(e, TextureBindImageTexture(
                                           Named(e, "this"), 0, level, TRUE,
                                           "GL_WRITE_ONLY", "GL_RGBA16F")),
                             "spmapProgram"),
                       0, Roughness(level, e.o.mLevels)).g,
                   Max(1, size \div 32), Max(1, size \div 32), 6)])

\* for (int level = 1, size = kEnvMapSize / 2; level <= this->GetLevels();
\*      ++level, size /= 2)
RECURSIVE PrefilterLoop(_, _, _)
PrefilterLoop(e, level, size) ==
    IF level <= e.o.mLevels
    THEN PrefilterLoop(PrefilterLevel(e, level, size), level + 1, size \div 2)
    ELSE e

\* one statement; shadersOk: the compute shaders compile and link
EnvironmentStatement(st, Img, shadersOk, e) ==
    CASE st.op = "Texture" ->
            PutLocal(e, st.var, EnvironmentTexture(st.var, Img, e.g))
      [] st.op = "ShaderProgram" ->
            PutLocal(e, st.var, ShaderProgramCtor(<<shadersOk>>, shadersOk, e.g))
      [] st.op = "Use" ->
            Called(e, ShaderProgramUse(Named(e, st.var)))
      [] st.op = "BindTextureUnit" ->
            Called(e, TextureBindTextureUnit(Named(e, st.var), 0))
      [] st.op = "BindImageTexture" ->
            Called(e, TextureBindImageTexture(Named(e, st.var), 0, 0, st.layered,
                                              "GL_WRITE_ONLY", st.format))
      [] st.op = "DispatchCompute" ->
            Called(e, [g |-> ShaderProgramDispatchCompute(
                                 e.g, Named(e, st.var).o.mWidth \div 32,
                                 Named(e, st.var).o.mHeight \div 32, st.z)])
      [] st.op = "GenerateMipmap" ->
            Called(e, TextureGenerateMipmap(Named(e, st.var)))
      [] st.op = "CopyImageSubData" ->
            Called(e, TextureCopyImageSubData(Named(e, st.var), 0, e.o, 0, 6))
      [] st.op = "for" ->
            PrefilterLoop(e, 1, kEnvMapSize \div 2)
      [] st.op = "SetWrap" ->
            Called(e, TextureSetWrap(Named(e, st.var), "GL_CLAMP_TO_EDGE",
                                     "GL_CLAMP_TO_EDGE"))
      [] st.op = "glFinish" ->
            [e EXCEPT !.g = glFinish(@)]
      [] st.op = "Release" ->
            PutLocal(e, st.var,
                     IF e.local[st.var].cls = "Texture"
                     THEN TextureRelease(Local(e, st.var))
                     ELSE ShaderProgramRelease(Local(e, st.var)))
      [] st.op = "Assign" ->
            PutMember(e, st.var,
                      AssignTemporary(e.o[st.var], EnvironmentTexture(st.var, Img, e.g)))
      [] st.op = "Destroy" ->
            PutLocal(e, st.var,
                     IF e.local[st.var].cls = "Texture"
                     THEN TextureDtor(Local(e, st.var))
                     ELSE ShaderProgramDtor(Local(e, st.var)))

RECURSIVE EnvironmentRun(_, _, _, _)
EnvironmentRun(i, Img, shadersOk, e) ==
    IF i > Len(EnvironmentBody) \/ DOMAIN e.local # EnvironmentLocals THEN e
    ELSE EnvironmentRun(i + 1, Img, shadersOk,
                        EnvironmentStatement(EnvironmentBody[i], Img, shadersOk, e))

\* the frame of the constructor body: *this with its base constructed, and
\* an empty trace for the commands of the body
EnvironmentFrame(c) ==
    [o |-> c.o, g |-> [c.g EXCEPT !.calls = <<>>],
     local |-> [v \in EnvironmentLocals |-> NoObject]]

\* the constructed object and the GL context when the body is left
EnvironmentDone(e) == [o |-> e.o, g |-> e.g]

\* Environment(const std::shared_ptr<Image>& Img)
\*     : Texture(GL_TEXTURE_CUBE_MAP, kEnvMapSize, kEnvMapSize, GL_RGBA16F)
EnvironmentCtor(Img, shadersOk, gl) ==
    EnvironmentDone(
        EnvironmentRun(1, Img, shadersOk,
            EnvironmentFrame(EnvironmentMembers(
                TextureSizedCtor(kEnvMapSize, kEnvMapSize, "GL_RGBA16F", 0, 0, gl)))))

\* ~Environment() override { Release(); }, then the members, then ~Texture
EnvironmentDtor(c) ==
    TextureDtor(DestroyMember(DestroyMember(EnvironmentRelease(c), "mSpBrdfLut"),
                              "mIrmap"))

(* ----------------------------- UniformBuffer --------------------------- *)
\* UniformBuffer() : mId(0): mData is left as it is, indeterminate
UniformBufferDefaultCtor(gl) ==
    [o |-> [cls |-> "UniformBuffer", mId |-> 0, mData |-> NoData], g |-> gl]

\* UniformBuffer(UniformBuffer &&Other) : mId(Other.mId): mData is not moved
UniformBufferMoveCtor(c) ==
    [o |-> [cls |-> "UniformBuffer", mId |-> c.other.mId, mData |-> NoData],
     other |-> [c.other EXCEPT !.mId = 0],
     g |-> c.g]

UniformBufferRelease(c) == [c EXCEPT !.o.mId = 0, !.g = glDelete(@, c.o.mId)]

UniformBufferMoveAssign(c, same) ==
    IF same THEN c ELSE Swap(UniformBufferRelease(c), {"mId"})

\* UniformBuffer::Create: glCreateBuffers(1, &mId) overwrites mId
UniformBufferCreate(c) == [c EXCEPT !.o.mId = NewId(c.g), !.g = glCreate(@, "buffer")]

UniformBufferDtor(c) == NonCopyableDtor(c)

(* ------------------------------ MeshGeometry --------------------------- *)
MeshGeometryDefaultCtor(gl) ==
    [o |-> [cls |-> "MeshGeometry", mEmpty |-> FALSE, mVbo |-> 0, mIbo |-> 0,
            mVao |-> 0, mNumElements |-> 0],
     g |-> gl]

\* MeshGeometry(const std::shared_ptr<Mesh> &MeshPtr, bool FullScreenTriangle)
MeshGeometryCtor(numFaces, FullScreenTriangle, gl) ==
    IF FullScreenTriangle
    THEN [o |-> [cls |-> "MeshGeometry", mEmpty |-> TRUE, mVbo |-> 0, mIbo |-> 0,
                 mVao |-> NewId(gl), mNumElements |-> 0],
          g |-> glCreate(gl, "vertexarray")]
    ELSE [o |-> [cls |-> "MeshGeometry", mEmpty |-> FALSE, mVbo |-> NewId(gl),
                 mIbo |-> NewId(gl) + 1, mVao |-> NewId(gl) + 2,
                 mNumElements |-> numFaces * 3],
          g |-> glCreate(glCreate(glCreate(gl, "buffer"), "buffer"), "vertexarray")]

MeshGeometryMoveCtor(c) ==
    [o |-> [cls |-> "MeshGeometry", mEmpty |-> c.other.mEmpty, mVbo |-> c.other.mVbo,
            mIbo |-> c.other.mIbo, mVao |-> c.other.mVao,
            mNumElements |-> c.other.mNumElements],
     other |-> [c.other EXCEPT !.mEmpty = FALSE, !.mVao = 0, !.mVbo = 0, !.mIbo = 0,
                               !.mNumElements = 0],
     g |-> c.g]

\* if (0 != field) { glDelete*(1, &field); field = 0; }
DeleteField(c, f) ==
    IF 0 # c.o[f] THEN [c EXCEPT !.o[f] = 0, !.g = glDelete(@, c.o[f])] ELSE c

MeshGeometryRelease(c) ==
    [DeleteField(DeleteField(DeleteField(c, "mVao"), "mVbo"), "mIbo")
        EXCEPT !.o.mNumElements = 0, !.o.mEmpty = FALSE]

\* PbrMesh does not override Release: the virtual call reaches this one too
MeshGeometryMoveAssign(c, same) ==
    IF same THEN c
    ELSE Swap(MeshGeometryRelease(c), {"mEmpty", "mVao", "mVbo", "mIbo", "mNumElements"})

\* MeshGeometry declares no destructor: only ~NonCopyable runs
MeshGeometryDtor(c) == NonCopyableDtor(c)

(* -------------------------------- PbrMesh ------------------------------ *)
TextureTypes == <<"Albedo", "Normals", "Metalness", "Roughness">>

\* per texture type: the member, the channels asked of the loader, the
\* internal format of a loaded texture, and the 1x1 fallback data and format
Material(t) ==
    CASE t = "Albedo" ->
            [field |-> "mAlbedo", channels |-> 4, format |-> "GL_SRGB8_ALPHA8",
             pix |-> <<128, 128, 128, 255>>, pixFormat |-> "GL_RGBA8"]
      [] t = "Normals" ->
            [field |-> "mNormals", channels |-> 3, format |-> "GL_RGB8",
             pix |-> <<0, 0, 255>>, pixFormat |-> "GL_RGB8"]
      [] t = "Metalness" ->
            [field |-> "mMetalness", channels |-> 1, format |-> "GL_R8",
             pix |-> <<128>>, pixFormat |-> "GL_R8"]
      [] t = "Roughness" ->
            [field |-> "mRoughness", channels |-> 1, format |-> "GL_R8",
             pix |-> <<128>>, pixFormat |-> "GL_R8"]

\* a derived PbrMesh object around its MeshGeometry base sub-object
AsPbrMesh(geo, albedo, normals, metalness, roughness, env) ==
    [cls |-> "PbrMesh", mEmpty |-> geo.mEmpty, mVbo |-> geo.mVbo, mIbo |-> geo.mIbo,
     mVao |-> geo.mVao, mNumElements |-> geo.mNumElements,
     mAlbedo |-> albedo, mNormals |-> normals, mMetalness |-> metalness,
     mRoughness |-> roughness, mEnvironmentPtr |-> env]

\* the derived part of a PbrMesh whose base is constructed: the four Texture
\* members and the shared_ptr, default-constructed
PbrMeshMembers(c) ==
    [c EXCEPT !.o = AsPbrMesh(c.o, TextureDefaultCtor(c.g).o, TextureDefaultCtor(c.g).o,
                              TextureDefaultCtor(c.g).o, TextureDefaultCtor(c.g).o, 0)]

PbrMeshDefaultCtor(gl) == PbrMeshMembers(MeshGeometryDefaultCtor(gl))

\* member = std::move(Other.member) for the i-th to the last texture member
RECURSIVE MoveMaterials(_, _)
MoveMaterials(i, c) ==
    IF i > Len(TextureTypes) THEN c
    ELSE MoveMaterials(i + 1, MoveAssignMember(c, Material(TextureTypes[i]).field))

\* mEnvironmentPtr = std::move(Other.mEnvironmentPtr)
MoveEnvironmentPtr(c) ==
    [c EXCEPT !.o.mEnvironmentPtr = c.other.mEnvironmentPtr,
              !.other.mEnvironmentPtr = 0]

PbrMeshMoveCtor(c) ==
    MoveEnvironmentPtr(MoveMaterials(1, PbrMeshMembers(MeshGeometryMoveCtor(c))))

PbrMeshMoveAssign(c, same) ==
    IF same THEN c
    ELSE MoveEnvironmentPtr(MoveMaterials(1, MeshGeometryMoveAssign(c, FALSE)))

\* the implicit ~PbrMesh: the texture members, last declared first, then the base
RECURSIVE DestroyMaterials(_, _)
DestroyMaterials(i, c) ==
    IF i < 1 THEN c
    ELSE DestroyMaterials(i - 1, DestroyMember(c, Material(TextureTypes[i]).field))

PbrMeshDtor(c) == MeshGeometryDtor(DestroyMaterials(Len(TextureTypes), c))

\* the else branch of one block, l being what Image::fromFile came back with:
\* member = Texture{ image, format, internalFormat }, unless the loader threw
MaterialFromImage(c, t, undef, l) ==
    IF l.thrown THEN [c EXCEPT !.thrown = TRUE, !.g = l.g]
    ELSE PutMember(c, Material(t).field,
                   AssignTemporary(c.o[Material(t).field],
                                   TextureImageCtor(l.img, Material(t).format, 0, undef,
                                                    l.g)))

\* one block of the constructor body: fileName = "textures/" + textureName(t),
\* then the 1x1 constant texture if fileName.empty(), else the image texture
LoadMaterial(c, t, textureName, junk, undef) ==
    IF Len("textures/" \o textureName) = 0
    THEN PutMember(c, Material(t).field,
                   AssignTemporary(c.o[Material(t).field],
                                   TextureDataCtor(1, 1, Material(t).pixFormat, 0,
                                                   Material(t).pix, undef, c.g)))
    ELSE MaterialFromImage(c, t, undef,
                           ImageFromFile("textures/" \o textureName,
                                         Material(t).channels, junk, c.g))

\* the four blocks, one per texture type; an exception ends the body
RECURSIVE LoadMaterials(_, _, _, _, _)
LoadMaterials(i, names, junk, undef, c) ==
    IF i > Len(TextureTypes) \/ c.thrown THEN c
    ELSE LoadMaterials(i + 1, names, junk, undef,
                       LoadMaterial(c, TextureTypes[i], names[TextureTypes[i]],
                                    junk[TextureTypes[i]], undef))

\* the frame of the constructor body: *this with base and members constructed
PbrMeshFrame(c) == [thrown |-> FALSE, o |-> c.o, g |-> c.g]

\* an exception leaving the body unwinds the members and the base sub-object
PbrMeshUnwind(c) ==
    IF c.thrown
    THEN [thrown |-> TRUE, o |-> NoObject, g |-> PbrMeshDtor(Ctx(c.o, c.g)).g]
    ELSE c

\* PbrMesh(MeshPtr, EnvironmentPtr = nullptr): names[t] is MeshPtr->textureName(t)
PbrMeshCtor(numFaces, names, junk, undef, gl) ==
    PbrMeshUnwind(LoadMaterials(1, names, junk, undef,
                      PbrMeshFrame(PbrMeshMembers(MeshGeometryCtor(numFaces, FALSE, gl)))))

(* ------------------- render targets owned by shared_ptr ---------------- *)
NewAddr(gl) == gl.nextAddr + 1

\* std::make_shared: a new heap object with one owner
MakeShared(rec, gl) ==
    [gl EXCEPT !.nextAddr = @ + 1,
               !.heap = [a \in DOMAIN gl.heap \cup {gl.nextAddr + 1} |->
                            IF a = gl.nextAddr + 1 THEN [o |-> rec, refs |-> 1]
                            ELSE gl.heap[a]]]

\* the destructor of a render target, by its dynamic class
VirtualDtor(c) ==
    CASE c.o.cls = "Texture"      -> TextureDtor(c)
      [] c.o.cls = "Renderbuffer" -> RenderbufferDtor(c)

\* operator delete
FreeAddr(gl, addr) == [gl EXCEPT !.heap = [a \in DOMAIN gl.heap \ {addr} |-> gl.heap[a]]]

\* a shared_ptr to addr goes away: the last one destroys the object
SharedPtrRelease(addr, gl) ==
    IF addr \notin DOMAIN gl.heap THEN gl
    ELSE IF gl.heap[addr].refs > 1
    THEN [gl EXCEPT !.heap[addr].refs = @ - 1]
    ELSE FreeAddr(VirtualDtor(Ctx(gl.heap[addr].o, gl)).g, addr)

\* every shared_ptr of a map goes away (clear(), or the map's destructor)
RECURSIVE ReleaseAll(_, _)
ReleaseAll(addrs, gl) ==
    IF addrs = {} THEN gl
    ELSE ReleaseAll(addrs \ {CHOOSE x \in addrs : TRUE},
                    SharedPtrRelease(CHOOSE x \in addrs : TRUE, gl))

(* ------------------------------ Framebuffer ---------------------------- *)
Attachments ==
    {"GL_COLOR_ATTACHMENT0", "GL_COLOR_ATTACHMENT1", "GL_COLOR_ATTACHMENT2",
     "GL_DEPTH_ATTACHMENT"}


\* the addresses a map of shared_ptrs refers to
MapAddrs(map) == {map[k] : k \in DOMAIN map}

\* the keys of keep in the order the sequence order lists them
RECURSIVE KeysInOrder(_, _, _)
KeysInOrder(order, i, keep) ==
    IF i > Len(order) THEN <<>>
    ELSE (IF order[i] \in keep THEN <<order[i]>> ELSE <<>>)
         \o KeysInOrder(order, i + 1, keep)

\* the keys of a std::unordered_map in its iteration order; the standard
\* leaves that order to the implementation: order lists all keys in it
IterationOrder(map, order) == KeysInOrder(order, 1, DOMAIN map)

\* Framebuffer(): glCreateFramebuffers(1, &mId)
FramebufferCtor(gl) ==
    [o |-> [cls |-> "Framebuffer", mId |-> NewId(gl), mRenderbuffers |-> <<>>,
            mRbParams |-> <<>>],
     g |-> glCreate(gl, "framebuffer")]

\* Framebuffer(Framebuffer &&Other) : mId(Other.mId): the two maps of the new
\* object are default-constructed, those of Other are left as they are
FramebufferMoveCtor(c) ==
    [o |-> [cls |-> "Framebuffer", mId |-> c.other.mId, mRenderbuffers |-> <<>>,
            mRbParams |-> <<>>],
     other |-> [c.other EXCEPT !.mId = 0],
     g |-> c.g]

\* a Release without the test of mId
FramebufferReleaseUnguarded(c) ==
    [c EXCEPT !.o.mRenderbuffers = <<>>, !.o.mId = 0,
              !.g = glDelete(ReleaseAll(MapAddrs(c.o.mRenderbuffers), @), c.o.mId)]

FramebufferRelease(c) ==
    IF 0 # c.o.mId
    THEN [c EXCEPT !.o.mRenderbuffers = <<>>, !.o.mId = 0,
                   !.g = glDelete(ReleaseAll(MapAddrs(c.o.mRenderbuffers), @), c.o.mId)]
    ELSE c

FramebufferMoveAssign(c, same) ==
    IF same THEN c ELSE Swap(FramebufferRelease(c), {"mId"})

\* the two maps are destroyed
FramebufferMaps(c) ==
    [c EXCEPT !.o.mRenderbuffers = <<>>, !.o.mRbParams = <<>>,
              !.g = ReleaseAll(MapAddrs(c.o.mRenderbuffers), @)]

\* ~Framebuffer() override { Release(); }, then the members, then ~NonCopyable
FramebufferDtor(c) == NonCopyableDtor(FramebufferMaps(FramebufferRelease(c)))

\* mRbParams[Attachment]: operator[] yields a value-initialised tuple for a new key
RbParamsAt(o, Attachment) ==
    IF Attachment \in DOMAIN o.mRbParams THEN o.mRbParams[Attachment]
    ELSE [type |-> "TypeRenderBuffer", format |-> "", samples |-> 0]

\* std::make_shared<Renderbuffer>() / std::make_shared<Texture>(GL_TEXTURE_2D):
\* the constructor of the pointee
NewTarget(type, gl) ==
    IF type = "TypeRenderBuffer" THEN RenderbufferCtor(gl) ELSE TextureTargetCtor(gl)

\* an assignment that leaves the shared_ptr the map held before alive
AssignTargetLeaking(c, Attachment, t) == [o |-> t.o, g |-> MakeShared(t.o, t.g)]

\* mRenderbuffers[Attachment] = ptr, for the new pointee of context t: the
\* pointee goes to the heap, the shared_ptr the map held before goes away
AssignTarget(c, Attachment, t) ==
    [o |-> t.o,
     g |-> IF Attachment \in DOMAIN c.o.mRenderbuffers
           THEN SharedPtrRelease(c.o.mRenderbuffers[Attachment], MakeShared(t.o, t.g))
           ELSE MakeShared(t.o, t.g)]

\* ptr->Storage(format, Width, Height, samples) / ptr->Storage(format, Width, Height, 1)
TargetStorage(t, params, Width, Height) ==
    IF params.type = "TypeRenderBuffer"
    THEN RenderbufferStorage(t, params.format, Width, Height, params.samples)
    ELSE TextureStorage(t, params.format, Width, Height, 1)

\* the framebuffer after the body of the if: the pointee of context t lives
\* at addr and is attached
AttachTarget(c, Attachment, params, addr, t) ==
    [c EXCEPT !.o.mRenderbuffers = MapPut(@, Attachment, addr),
              !.o.mRbParams = MapPut(@, Attachment, params),
              !.g = glAttach([t.g EXCEPT !.heap[addr].o = t.o], c.o.mId, Attachment,
                             t.o.mId)]

\* a recreateIfNeeded without the test of the size
recreateAlways(c, Attachment, Width, Height) ==
    AttachTarget(c, Attachment, RbParamsAt(c.o, Attachment), NewAddr(c.g),
        TargetStorage(
            AssignTarget(c, Attachment, NewTarget(RbParamsAt(c.o, Attachment).type, c.g)),
            RbParamsAt(c.o, Attachment), Width, Height))

recreateIfNeeded(c, Attachment, Width, Height) ==
    IF \/ Attachment \notin DOMAIN c.o.mRenderbuffers
       \/ c.g.heap[c.o.mRenderbuffers[Attachment]].o.mWidth # Width
       \/ c.g.heap[c.o.mRenderbuffers[Attachment]].o.mHeight # Height
    THEN AttachTarget(c, Attachment, RbParamsAt(c.o, Attachment), NewAddr(c.g),
             TargetStorage(
                 AssignTarget(c, Attachment,
                              NewTarget(RbParamsAt(c.o, Attachment).type, c.g)),
                 RbParamsAt(c.o, Attachment), Width, Height))
    ELSE c

updateDrawBuffers(c, order) ==
    [c EXCEPT !.g = glDrawBuffers(@, c.o.mId,
                        KeysInOrder(order, 1,
                                    DOMAIN c.o.mRenderbuffers \ {"GL_DEPTH_ATTACHMENT"}))]

\* mRbParams[Attachment] = std::make_tuple(type, Format, Samples)
SetRbParams(c, Attachment, params) ==
    [c EXCEPT !.o.mRbParams = MapPut(@, Attachment, params)]

FramebufferAttachRenderbuffer(c, Attachment, Format, Width, Height, Samples, order) ==
    updateDrawBuffers(
        recreateIfNeeded(
            SetRbParams(c, Attachment,
                [type |-> "TypeRenderBuffer", format |-> Format, samples |-> Samples]),
            Attachment, Width, Height),
        order)

FramebufferAttachTexture(c, Attachment, Format, Width, Height, order) ==
    updateDrawBuffers(
        recreateIfNeeded(
            SetRbParams(c, Attachment,
                [type |-> "TypeTexture", format |-> Format, samples |-> 0]),
            Attachment, Width, Height),
        order)

\* a loop that ends after its first pass
ResizeFirstOnly(keys, i, Width, Height, c) ==
    IF i > Len(keys) THEN c ELSE recreateIfNeeded(c, keys[i], Width, Height)

RECURSIVE ResizeEach(_, _, _, _, _)
ResizeEach(keys, i, Width, Height, c) ==
    IF i > Len(keys) THEN c
    ELSE ResizeEach(keys, i + 1, Width, Height,
                    recreateIfNeeded(c, keys[i], Width, Height))

FramebufferResizeAll(c, Width, Height, order) ==
    ResizeEach(IterationOrder(c.o.mRenderbuffers, order), 1, Width, Height, c)

(* ----------------- dispatch on the class of an object ------------------ *)
Classes == {"Shader", "ShaderProgram", "Texture", "Environment", "Renderbuffer",
            "Framebuffer", "UniformBuffer", "MeshGeometry", "PbrMesh"}

\* T(): Shader has no default constructor
DefaultCtor(cl, gl) ==
    CASE cl = "ShaderProgram" -> ShaderProgramDefaultCtor(gl)
      [] cl = "Texture"       -> TextureDefaultCtor(gl)
      [] cl = "Environment"   -> EnvironmentDefaultCtor(gl)
      [] cl = "Renderbuffer"  -> RenderbufferCtor(gl)
      [] cl = "Framebuffer"   -> FramebufferCtor(gl)
      [] cl = "UniformBuffer" -> UniformBufferDefaultCtor(gl)
      [] cl = "MeshGeometry"  -> MeshGeometryDefaultCtor(gl)
      [] cl = "PbrMesh"       -> PbrMeshDefaultCtor(gl)

\* T(std::move(Other)): c.other is Other, the value's o the new object
MoveCtor(c) ==
    CASE c.other.cls = "Shader"        -> ShaderMoveCtor(c)
      [] c.other.cls = "ShaderProgram" -> ShaderProgramMoveCtor(c)
      [] c.other.cls = "Texture"       -> TextureMoveCtor(c)
      [] c.other.cls = "Environment"   -> EnvironmentMoveCtor(c)
      [] c.other.cls = "Renderbuffer"  -> RenderbufferMoveCtor(c)
      [] c.other.cls = "Framebuffer"   -> FramebufferMoveCtor(c)
      [] c.other.cls = "UniformBuffer" -> UniformBufferMoveCtor(c)
      [] c.other.cls = "MeshGeometry"  -> MeshGeometryMoveCtor(c)
      [] c.other.cls = "PbrMesh"       -> PbrMeshMoveCtor(c)

\* *this = std::move(Other); same: Other is this very object
MoveAssign(c, same) ==
    CASE c.o.cls = "Shader"        -> ShaderMoveAssign(c, same)
      [] c.o.cls = "ShaderProgram" -> ShaderProgramMoveAssign(c, same)
      [] c.o.cls = "Texture"       -> TextureMoveAssign(c, same)
      [] c.o.cls = "Environment"   -> EnvironmentMoveAssign(c, same)
      [] c.o.cls = "Renderbuffer"  -> RenderbufferMoveAssign(c, same)
      [] c.o.cls = "Framebuffer"   -> FramebufferMoveAssign(c, same)
      [] c.o.cls = "UniformBuffer" -> UniformBufferMoveAssign(c, same)
      [] c.o.cls = "MeshGeometry"  -> MeshGeometryMoveAssign(c, same)
      [] c.o.cls = "PbrMesh"       -> PbrMeshMoveAssign(c, same)

\* Release(), resolved by the class of *this
ReleaseOf(c) ==
    CASE c.o.cls = "Shader"        -> ShaderRelease(c)
      [] c.o.cls = "ShaderProgram" -> ShaderProgramRelease(c)
      [] c.o.cls = "Texture"       -> TextureRelease(c)
      [] c.o.cls = "Environment"   -> EnvironmentRelease(c)
      [] c.o.cls = "Renderbuffer"  -> RenderbufferRelease(c)
      [] c.o.cls = "Framebuffer"   -> FramebufferRelease(c)
      [] c.o.cls = "UniformBuffer" -> UniformBufferRelease(c)
      [] c.o.cls = "MeshGeometry"  -> MeshGeometryRelease(c)
      [] c.o.cls = "PbrMesh"       -> MeshGeometryRelease(c)

\* the destructor of *this
DtorOf(c) ==
    CASE c.o.cls = "Shader"        -> ShaderDtor(c)
      [] c.o.cls = "ShaderProgram" -> ShaderProgramDtor(c)
      [] c.o.cls = "Texture"       -> TextureDtor(c)
      [] c.o.cls = "Environment"   -> EnvironmentDtor(c)
      [] c.o.cls = "Renderbuffer"  -> RenderbufferDtor(c)
      [] c.o.cls = "Framebuffer"   -> FramebufferDtor(c)
      [] c.o.cls = "UniformBuffer" -> UniformBufferDtor(c)
      [] c.o.cls = "MeshGeometry"  -> MeshGeometryDtor(c)
      [] c.o.cls = "PbrMesh"       -> PbrMeshDtor(c)

\* the GPU names an object holds in its identifier fields (0 = no object)
TextureIds(o) == {o.mId} \ {0}

HeldIds(o) ==
    CASE o.cls = "none"          -> {}
      [] o.cls = "Shader"        -> {o.mShader} \ {0}
      [] o.cls = "ShaderProgram" -> {o.mProgram} \ {0}
      [] o.cls = "Environment"   ->
            TextureIds(o) \cup TextureIds(o.mIrmap) \cup TextureIds(o.mSpBrdfLut)
      [] o.cls = "MeshGeometry"  -> {o.mVbo, o.mIbo, o.mVao} \ {0}
      [] o.cls = "PbrMesh"       ->
            ({o.mVbo, o.mIbo, o.mVao} \ {0}) \cup TextureIds(o.mAlbedo)
            \cup TextureIds(o.mNormals) \cup TextureIds(o.mMetalness)
            \cup TextureIds(o.mRoughness)
      [] OTHER                   -> {o.mId} \ {0}

\* bool IsUsable(): Framebuffer, UniformBuffer and MeshGeometry declare none;
\* for them "usable" is read as "holds an identifier"
IsUsable(o) ==
    CASE o.cls = "Shader"        -> ShaderIsUsable(o)
      [] o.cls = "ShaderProgram" -> ShaderProgramIsUsable(o)
      [] o.cls \in {"Texture", "Environment", "Renderbuffer"} -> RenderTargetIsUsable(o)
      [] OTHER                   -> HeldIds(o) # {}

(* ------------------------------- inputs -------------------------------- *)
IntMin == -2147483647 - 1

\* what int(-inf) may yield: the x86/ARM conversion result, or zero
UndefLevels == {IntMin, 0}

\* the indeterminate value of an uninitialised pointer member
JunkPointers == {"null", "garbage"}

TextureTypeSet == Range(TextureTypes)

\* texture file names a mesh may carry ("" = the material has none)
TextureNames == {"", "a.png"}

\* one name, and one indeterminate value, for all four textures of a mesh
Uniform(S) == {[t \in TextureTypeSet |-> x] : x \in S}

\* the file Renderer::setup loads, intact or damaged
SetupFiles == {"environment.hdr", "broken.hdr"}

\* the sample count the application initialises the renderer with
DisplaySamples == 8

\* the AttachRenderbuffer calls of Renderer::initialize on mFramebuffer
RenderbufferCalls ==
    <<[attachment |-> "GL_COLOR_ATTACHMENT0", format |-> "GL_RGBA16F",
       samples |-> DisplaySamples],
      [attachment |-> "GL_COLOR_ATTACHMENT1", format |-> "GL_RGBA16F",
       samples |-> DisplaySamples],
      [attachment |-> "GL_COLOR_ATTACHMENT2", format |-> "GL_R16F",
       samples |-> DisplaySamples],
      [attachment |-> "GL_DEPTH_ATTACHMENT", format |-> "GL_DEPTH_COMPONENT32",
       samples |-> DisplaySamples]>>

\* the AttachTexture calls of Renderer::initialize on mResolveFramebuffer
TextureCalls ==
    <<[attachment |-> "GL_COLOR_ATTACHMENT0", format |-> "GL_RGBA16F"],
      [attachment |-> "GL_COLOR_ATTACHMENT1", format |-> "GL_RGBA16F"],
      [attachment |-> "GL_COLOR_ATTACHMENT2", format |-> "GL_R16F"]>>

\* the calls of a list the application may make again, or on another
\* framebuffer: those for the first colour attachment and the depth attachment
Again(calls) ==
    {c \in Range(calls) :
        c.attachment \in {"GL_COLOR_ATTACHMENT0", "GL_DEPTH_ATTACHMENT"}}

\* the size the window is created with
InitialSize == CHOOSE sz \in Sizes : sz[1] = 1 /\ sz[2] = 1

\* orders in which an unordered_map may enumerate the attachment points: the
\* standard leaves the order open; two of them, one the reverse of the other
Orders ==
    {<<"GL_COLOR_ATTACHMENT0", "GL_COLOR_ATTACHMENT1", "GL_COLOR_ATTACHMENT2",
       "GL_DEPTH_ATTACHMENT">>,
     <<"GL_DEPTH_ATTACHMENT", "GL_COLOR_ATTACHMENT2", "GL_COLOR_ATTACHMENT1",
       "GL_COLOR_ATTACHMENT0">>}

NoImage == [state |-> "none", img |-> ImageCtor("null")]

\* the record of an operation: what was called, on which slots, whether its
\* inputs were good, the names or the size it was given, and whether it
\* repeats the call before it
Op(op, dst, src, ok) ==
    [op |-> op, dst |-> dst, src |-> src, ok |-> ok, names |-> <<>>, size |-> <<>>,
     levels |-> 0, repeat |-> FALSE]

\* the call q is the call p once more
SameCall(p, q) == p.op = q.op /\ p.dst = q.dst /\ p.src = q.src /\ p.size = q.size

OpNames(op, dst, ok, names) == [Op(op, dst, 0, ok) EXCEPT !.names = names]

OpSize(op, dst, W, H) == [Op(op, dst, 0, TRUE) EXCEPT !.size = <<W, H>>]

OpLevels(op, dst, W, H, Levels) == [OpSize(op, dst, W, H) EXCEPT !.levels = Levels]

(* ------------------------------ the machine ---------------------------- *)
Init ==
    /\ cls \in Classes
    /\ slot = [s \in Slots |-> NoObject]
    /\ g \in {[GLInit EXCEPT !.floatLog = b] : b \in BOOLEAN}
    /\ lastOp = Op("init", 0, 0, TRUE)
    /\ allocOps = 0
    /\ image = NoImage
    /\ app = NoApplication

Constructed(s) == slot[s].cls # "none"

\* the object in slot s as *this, the one in slot s2 as Other
This(s) == [o |-> slot[s], g |-> g]

ThisAndOther(s, s2) == [o |-> slot[s], other |-> slot[s2], g |-> g]

\* all objects as the members of one context, so that a call on slot s is
\* a call on member s
AllSlots == [o |-> slot, g |-> g]

\* the objects and the GL context after a call came back with context r:
\* the object of the call lives in slot s (and Other in slot s2)
Install(s, r) == [o |-> [slot EXCEPT ![s] = r.o], g |-> r.g]

InstallPair(s, s2, r) == [o |-> [slot EXCEPT ![s] = r.o, ![s2] = r.other], g |-> r.g]

\* the storage of slot s is given back after its destructor ran
Vacate(s, r) == [o |-> [slot EXCEPT ![s] = NoObject], g |-> r.g]

\* operations that created GPU objects, and every Attach, ResizeAll and render call,
\* count against MaxAllocOps; so does Renderer::initialize
Budget(gl2, op) ==
    IF gl2.next = g.next /\ op.op \notin {"Attach", "ResizeAll", "render"}
    THEN allocOps ELSE allocOps + 1

\* the step to the objects and GL context of c, recorded as op
Commit(c, op) ==
    /\ Budget(c.g, op) <= MaxAllocOps
    /\ slot' = c.o
    /\ g' = c.g
    /\ lastOp' = [op EXCEPT !.repeat = SameCall(lastOp, op)]
    /\ allocOps' = Budget(c.g, op)

\* T x;
DefaultConstruct(s) ==
    /\ cls # "Shader"
    /\ ~Constructed(s)
    /\ Commit(Install(s, DefaultCtor(cls, g)), Op("DefaultCtor", s, 0, TRUE))
    /\ UNCHANGED <<cls, image, app>>

\* Shader x(type, source);
ConstructShader(s, success) ==
    /\ cls = "Shader"
    /\ ~Constructed(s)
    /\ Commit(Install(s, ShaderCtor(success, g)), Op("Ctor", s, 0, success))
    /\ UNCHANGED <<cls, image, app>>

\* ShaderProgram x{{vertex, fragment}};
ConstructShaderProgram(s, compiled, linked) ==
    /\ cls = "ShaderProgram"
    /\ ~Constructed(s)
    /\ Commit(Install(s, ShaderProgramCtor(compiled, linked, g)),
              Op("Ctor", s, 0, linked /\ \A i \in DOMAIN compiled : compiled[i]))
    /\ UNCHANGED <<cls, image, app>>

\* Texture x(target);
ConstructTextureTarget(s) ==
    /\ cls = "Texture"
    /\ ~Constructed(s)
    /\ Commit(Install(s, TextureTargetCtor(g)), Op("Ctor", s, 0, TRUE))
    /\ UNCHANGED <<cls, image, app>>

\* Texture x(target, W, H, internalFormat, levels);
ConstructTextureSized(s, W, H, levels) ==
    /\ cls = "Texture"
    /\ ~Constructed(s)
    /\ Commit(Install(s, TextureSizedCtor(W, H, "GL_RGBA16F", levels, 0, g)),
              OpLevels("Ctor", s, W, H, levels))
    /\ UNCHANGED <<cls, image, app>>

\* Texture x(target, 1, 1, format, internalFormat, 0, type, &pix);
ConstructTextureData(s, t) ==
    /\ cls = "Texture"
    /\ ~Constructed(s)
    /\ Commit(Install(s, TextureDataCtor(1, 1, Material(t).pixFormat, 0, Material(t).pix,
                                         0, g)),
              Op("Ctor", s, 0, TRUE))
    /\ UNCHANGED <<cls, image, app>>

\* what the caller of Image::fromFile is left with
Loaded(r) == [state |-> IF r.thrown THEN "thrown" ELSE "loaded", img |-> r.img]

\* auto img = Image::fromFile(filename, channels);  (Renderer::setup)
LoadImage(filename, channels, junk) ==
    /\ cls = "Environment"
    /\ image' = Loaded(ImageFromFile(filename, channels, junk, g))
    /\ Commit([o |-> slot, g |-> ImageFromFile(filename, channels, junk, g).g],
              Op("fromFile", 0, 0, Decode(filename).ok))
    /\ UNCHANGED <<cls, app>>

\* Environment x(img);
ConstructEnvironment(s, shadersOk) ==
    /\ cls = "Environment"
    /\ ~Constructed(s)
    /\ image.state = "loaded"
    /\ Commit(Install(s, EnvironmentCtor(image.img, shadersOk, g)),
              Op("Ctor", s, 0, shadersOk))
    /\ UNCHANGED <<cls, image, app>>

\* MeshGeometry x(mesh, fullScreenTriangle);
ConstructMeshGeometry(s, numFaces, full) ==
    /\ cls = "MeshGeometry"
    /\ ~Constructed(s)
    /\ Commit(Install(s, MeshGeometryCtor(numFaces, full, g)), Op("Ctor", s, 0, TRUE))
    /\ UNCHANGED <<cls, image, app>>

\* the step of a PbrMesh constructor that came back with context r
CommitPbrMesh(s, r, names) == Commit(Install(s, r), OpNames("Ctor", s, ~r.thrown, names))

\* PbrMesh x(mesh);  an exception leaves no object behind
ConstructPbrMesh(s, numFaces, names, junk, undef) ==
    /\ cls = "PbrMesh"
    /\ ~Constructed(s)
    /\ CommitPbrMesh(s, PbrMeshCtor(numFaces, names, junk, undef, g), names)
    /\ UNCHANGED <<cls, image, app>>

\* T x(std::move(y));
MoveConstruct(d, s) ==
    /\ ~Constructed(d)
    /\ Constructed(s)
    /\ Commit(InstallPair(d, s, MoveCtor(ThisAndOther(d, s))), Op("MoveCtor", d, s, TRUE))
    /\ UNCHANGED <<cls, image, app>>

\* x = std::move(y);  also with y being x
MoveAssignStep(d, s) ==
    /\ Constructed(d)
    /\ Constructed(s)
    /\ Commit(InstallPair(d, s, MoveAssign(ThisAndOther(d, s), d = s)),
              Op("MoveAssign", d, s, TRUE))
    /\ UNCHANGED <<cls, image, app>>

\* x.Release();
ReleaseStep(s) ==
    /\ Constructed(s)
    /\ Commit(Install(s, ReleaseOf(This(s))), Op("Release", s, 0, TRUE))
    /\ UNCHANGED <<cls, image, app>>

\* x goes out of scope
Destroy(s) ==
    /\ Constructed(s)
    /\ Commit(Vacate(s, DtorOf(This(s))), Op("Destroy", s, 0, TRUE))
    /\ UNCHANGED <<cls, image, app>>

\* x.Create();
CreateUniformBuffer(s) ==
    /\ cls = "UniformBuffer"
    /\ Constructed(s)
    /\ Commit(Install(s, UniformBufferCreate(This(s))), Op("Create", s, 0, TRUE))
    /\ UNCHANGED <<cls, image, app>>

\* fb.AttachRenderbuffer(attachment, format, W, H, samples);
AttachRenderbuffer(s, a, format, W, H, samples, order) ==
    /\ cls = "Framebuffer"
    /\ Constructed(s)
    /\ Commit(Install(s, FramebufferAttachRenderbuffer(This(s), a, format, W, H, samples,
                                                       order)),
              Op("Attach", s, 0, TRUE))
    /\ UNCHANGED <<cls, image, app>>

\* fb.AttachTexture(attachment, format, W, H);
AttachTexture(s, a, format, W, H, order) ==
    /\ cls = "Framebuffer"
    /\ Constructed(s)
    /\ Commit(Install(s, FramebufferAttachTexture(This(s), a, format, W, H, order)),
              Op("Attach", s, 0, TRUE))
    /\ UNCHANGED <<cls, image, app>>

\* every attachment of the framebuffer o already has the size (W, H)
AllSized(o, W, H, gl) ==
    \A a \in DOMAIN o.mRenderbuffers :
        /\ gl.heap[o.mRenderbuffers[a]].o.mWidth = W
        /\ gl.heap[o.mRenderbuffers[a]].o.mHeight = H

\* fb.ResizeAll(W, H);
ResizeAll(s, W, H, order) ==
    /\ cls = "Framebuffer"
    /\ Constructed(s)
    /\ Commit(Install(s, FramebufferResizeAll(This(s), W, H, order)),
              OpSize("ResizeAll", s, W, H))
    /\ UNCHANGED <<cls, image, app>>

\* slotPtr->ResizeAll(W, H) for the framebuffer member s of the context c
ResizeMember(c, s, W, H, order) ==
    PutMember(c, s, FramebufferResizeAll(Member(c, s), W, H, order))

\* Renderer::render, its first two statements:
\*   mFramebuffer->ResizeAll(fbWidth, fbHeight);
\*   mResolveFramebuffer->ResizeAll(fbWidth, fbHeight);
\* slot 1 is *mFramebuffer and slot 2 is *mResolveFramebuffer
Render(W, H, order1, order2) ==
    /\ cls = "Framebuffer"
    /\ \A s \in 1..2 : Constructed(s)
    /\ Commit(ResizeMember(ResizeMember(AllSlots, 1, W, H, order1), 2, W, H, order2),
              OpSize("render", 0, W, H))
    /\ UNCHANGED <<cls, image, app>>

Next ==
    \/ \E s \in Slots : DefaultConstruct(s)
    \/ \E s \in Slots, ok \in BOOLEAN : ConstructShader(s, ok)
    \/ \E s \in Slots, compiled \in [1..2 -> BOOLEAN], linked \in BOOLEAN :
            ConstructShaderProgram(s, compiled, linked)
    \/ \E s \in Slots : ConstructTextureTarget(s)
    \/ \E s \in Slots, W \in TextureDims, H \in TextureDims, levels \in 0..1 :
            ConstructTextureSized(s, W, H, levels)
    \/ \E s \in Slots, t \in TextureTypeSet : ConstructTextureData(s, t)
    \/ \E f \in SetupFiles, junk \in JunkPointers : LoadImage(f, 3, junk)
    \/ \E s \in Slots, ok \in BOOLEAN : ConstructEnvironment(s, ok)
    \/ \E s \in Slots, n \in 1..MaxFaces, full \in BOOLEAN : ConstructMeshGeometry(s, n, full)
    \/ \E s \in Slots, n \in 1..MaxFaces, names \in Uniform(TextureNames),
          junk \in Uniform(JunkPointers), undef \in UndefLevels :
            ConstructPbrMesh(s, n, names, junk, undef)
    \/ \E d, s \in Slots : MoveConstruct(d, s)
    \/ \E d, s \in Slots : MoveAssignStep(d, s)
    \/ \E s \in Slots : ReleaseStep(s)
    \/ \E s \in Slots : Destroy(s)
    \/ \E s \in Slots : CreateUniformBuffer(s)
    \/ \E s \in Slots, c \in Again(RenderbufferCalls), order \in Orders :
            AttachRenderbuffer(s, c.attachment, c.format, InitialSize[1], InitialSize[2],
                               c.samples, order)
    \/ \E s \in Slots, c \in Again(TextureCalls), order \in Orders :
            AttachTexture(s, c.attachment, c.format, InitialSize[1], InitialSize[2], order)
    \/ \E s \in Slots, sz \in Sizes, order \in Orders : ResizeAll(s, sz[1], sz[2], order)

Spec == Init /\ [][Next]_vars

(* ------------------ the two framebuffers of the renderer --------------- *)
\* one Attach call of Renderer::initialize, at the size of the window
AttachCall(c, call, isTexture, order) ==
    IF isTexture
    THEN FramebufferAttachTexture(c, call.attachment, call.format, InitialSize[1],
                                  InitialSize[2], order)
    ELSE FramebufferAttachRenderbuffer(c, call.attachment, call.format, InitialSize[1],
                                       InitialSize[2], call.samples, order)

RECURSIVE AttachAll(_, _, _, _, _)
AttachAll(calls, i, isTexture, order, c) ==
    IF i > Len(calls) THEN c
    ELSE AttachAll(calls, i + 1, isTexture, order, AttachCall(c, calls[i], isTexture, order))

\* an initialize that leaves the draw buffers as the Attach calls set them
FramebufferDrawBuffersSkipped(c, Buffers) == c

\* Framebuffer::DrawBuffers
FramebufferDrawBuffers(c, Buffers) == [c EXCEPT !.g = glDrawBuffers(@, c.o.mId, Buffers)]

\* the list both framebuffers are given by initialize's DrawBuffers calls
InitialDrawBuffers ==
    <<"GL_COLOR_ATTACHMENT0", "GL_COLOR_ATTACHMENT1", "GL_COLOR_ATTACHMENT2">>

\* a framebuffer of initialize up to its CheckStatus: make_shared, the
\* Attach calls, DrawBuffers
InitializeFramebuffer(calls, isTexture, order, gl) ==
    FramebufferDrawBuffers(AttachAll(calls, 1, isTexture, order, FramebufferCtor(gl)),
                           InitialDrawBuffers)

\* mResolveFramebuffer, made once mFramebuffer (context fb) is complete
ResolveFramebuffer(fb, order2) ==
    [mFramebuffer |-> fb.o,
     res |-> InitializeFramebuffer(TextureCalls, TRUE, order2, fb.g)]

\* the renderer's two framebuffers and the GL context
RendererState(r) ==
    [mFramebuffer |-> r.mFramebuffer, mResolveFramebuffer |-> r.res.o, g |-> r.res.g]

\* Renderer::initialize: mFramebuffer gets the renderbuffers of RenderbufferCalls,
\* mResolveFramebuffer the textures of TextureCalls, all of the window's size
RendererInitialize(order1, order2) ==
    RendererState(
        ResolveFramebuffer(
            InitializeFramebuffer(RenderbufferCalls, FALSE, order1, GLInit),
            order2))

\* the objects of a renderer r: slot 1 is *mFramebuffer, slot 2 *mResolveFramebuffer
RendererSlots(r) ==
    [s \in Slots |-> IF s = 1 THEN r.mFramebuffer
                     ELSE IF s = 2 THEN r.mResolveFramebuffer
                     ELSE NoObject]

InitRenderer ==
    /\ cls = "Framebuffer"
    /\ \E order1, order2 \in Orders :
          /\ slot = RendererSlots(RendererInitialize(order1, order2))
          /\ g = RendererInitialize(order1, order2).g
    /\ lastOp = Op("initialize", 0, 0, TRUE)
    /\ allocOps = 1
    /\ image = NoImage
    /\ app = NoApplication

NextRenderer ==
    \/ \E sz \in Sizes, order1, order2 \in Orders : Render(sz[1], sz[2], order1, order2)
    \/ \E s \in Slots, sz \in Sizes, order \in Orders : ResizeAll(s, sz[1], sz[2], order)
    \/ \E s \in Slots, c \in Again(RenderbufferCalls), sz \in Sizes, order \in Orders :
            AttachRenderbuffer(s, c.attachment, c.format, sz[1], sz[2], c.samples, order)
    \/ \E s \in Slots, c \in Again(TextureCalls), sz \in Sizes, order \in Orders :
            AttachTexture(s, c.attachment, c.format, sz[1], sz[2], order)

SpecRenderer == InitRenderer /\ [][NextRenderer]_vars

(* ----------------- member functions a frame calls ---------------------- *)
\* UniformBuffer::Update: glNamedBufferSubData(mId, 0, sizeof(T), &mData)
UniformBufferUpdate(c) == [c EXCEPT !.g = glNamedBufferSubData(@, c.o.mId, c.o.mData)]

\* a Bind that does not upload
UniformBufferBindOnly(c, Slot) == [c EXCEPT !.g = glBindBufferBase(@, Slot, c.o.mId)]

\* UniformBuffer::Bind: Update(); glBindBufferBase(GL_UNIFORM_BUFFER, Slot, mId)
UniformBufferBind(c, Slot) ==
    [UniformBufferUpdate(c) EXCEPT !.g = glBindBufferBase(@, Slot, c.o.mId)]

\* GetReference().f = v: the field f of mData is written
SetField(d, f, v) ==
    [x \in (DOMAIN d \cup {f}) \ {"indeterminate"} |-> IF x = f THEN v ELSE d[x]]

\* MeshGeometry::Render
MeshGeometryRender(c) ==
    [c EXCEPT !.g =
        IF ~c.o.mEmpty
        THEN Call(glBindVertexArray(@, c.o.mVao), "glDrawElements",
                  [vao |-> c.o.mVao, count |-> c.o.mNumElements])
        ELSE Call(glBindVertexArray(@, c.o.mVao), "glDrawArrays",
                  [vao |-> c.o.mVao, count |-> 3])]

\* x = T{...}: the temporary of context t is move-assigned to the object m
\* and destroyed at the end of the full expression
DestroyTemporary(a) == [o |-> a.o, g |-> DtorOf(Ctx(a.other, a.g)).g]

MoveAssignTemporary(m, t) ==
    DestroyTemporary(MoveAssign([o |-> m, other |-> t.o, g |-> t.g], FALSE))

\* the compile and link status of the programs of the shader files shipped
ShadersCompile == <<TRUE, TRUE>>

\* pbrProgram = ShaderProgram{ ... }: the program is compiled, linked and
\* move-assigned to the static
AssignPbrProgram(c) ==
    [c EXCEPT
        !.pbrProgram =
            MoveAssignTemporary(@, ShaderProgramCtor(ShadersCompile, TRUE, c.g)).o,
        !.g = MoveAssignTemporary(c.pbrProgram,
                                  ShaderProgramCtor(ShadersCompile, TRUE, @)).g]

\* a Render that builds the program whenever it is called
BuildPbrProgramAlways(c) == AssignPbrProgram(c)

\* PbrMesh::Render, its first statement: the function-local static pbrProgram
\* (c.pbrProgram) is built when it is not usable
BuildPbrProgram(c) ==
    IF ~ShaderProgramIsUsable(c.pbrProgram) THEN AssignPbrProgram(c) ELSE c

\* pbrProgram.Use()
UsePbrProgram(c) == [c EXCEPT !.g = ShaderProgramUse(Ctx(c.pbrProgram, @)).g]

\* the four material textures go to the units 0 to 3
BindMaterials(c) ==
    [c EXCEPT !.g =
        glBindTextureUnit(
            glBindTextureUnit(
                glBindTextureUnit(glBindTextureUnit(@, 0, c.o.mAlbedo.mId),
                                  1, c.o.mNormals.mId),
                2, c.o.mMetalness.mId),
            3, c.o.mRoughness.mId)]

\* if (nullptr != mEnvironmentPtr): its three textures go to the units 4 to 6
BindEnvironment(c) ==
    IF c.o.mEnvironmentPtr # 0
    THEN [c EXCEPT !.g =
            glBindTextureUnit(
                glBindTextureUnit(
                    glBindTextureUnit(@, 4, c.g.heap[c.o.mEnvironmentPtr].o.mId),
                    5, c.g.heap[c.o.mEnvironmentPtr].o.mIrmap.mId),
                6, c.g.heap[c.o.mEnvironmentPtr].o.mSpBrdfLut.mId)]
    ELSE c

\* PbrMesh::Render, on the context [o, pbrProgram, g]
PbrMeshRender(c) ==
    MeshGeometryRender(BindEnvironment(BindMaterials(UsePbrProgram(BuildPbrProgram(c)))))

\* the render target at the attachment point a of the framebuffer o
TargetAt(o, a, gl) == gl.heap[o.mRenderbuffers[a]].o

\* Framebuffer::Bind / Unbind
FramebufferBind(c) ==
    [c EXCEPT !.g = Call(glBindFramebuffer(@, c.o.mId), "glBindFramebuffer",
                         [fb |-> c.o.mId])]

FramebufferUnbind(c) ==
    [c EXCEPT !.g = Call(glBindFramebuffer(@, 0), "glBindFramebuffer", [fb |-> 0])]

\* a Resolve that does not select the buffer it reads
FramebufferReadBufferSkipped(c, Attachment) == c

\* Framebuffer::ReadBuffer, DrawBuffer and Blit
FramebufferReadBuffer(c, Attachment) ==
    [c EXCEPT !.g = glNamedFramebufferReadBuffer(@, c.o.mId, Attachment)]

FramebufferDrawBuffer(c, Attachment) ==
    [c EXCEPT !.g = glNamedFramebufferDrawBuffer(@, c.o.mId, Attachment)]

FramebufferBlit(c, SrcP1, Dst, DstP1, Mask, Filter) ==
    [c EXCEPT !.g = glBlitNamedFramebuffer(@, c.o.mId, Dst.mId, SrcP1, DstP1, Mask, Filter)]

\* one pass of the loop of Framebuffer::Resolve, *this being c.o and Dst
\* c.other: GetRenderTarget is mRenderbuffers.at(), which throws for a point
\* that has no attachment; then ReadBuffer, Dst.DrawBuffer and Blit
ResolveOne(c, copyParams) ==
    IF \/ copyParams.attach1 \notin DOMAIN c.o.mRenderbuffers
       \/ copyParams.attach2 \notin DOMAIN c.other.mRenderbuffers
    THEN [c EXCEPT !.thrown = TRUE]
    ELSE FramebufferBlit(
             [FramebufferReadBuffer(c, copyParams.attach1) EXCEPT
                 !.g = FramebufferDrawBuffer(Ctx(c.other, @), copyParams.attach2).g],
             <<TargetAt(c.o, copyParams.attach1, c.g).mWidth,
               TargetAt(c.o, copyParams.attach1, c.g).mHeight>>,
             c.other,
             <<TargetAt(c.other, copyParams.attach2, c.g).mWidth,
               TargetAt(c.other, copyParams.attach2, c.g).mHeight>>,
             copyParams.mask, copyParams.filter)

RECURSIVE FramebufferResolve(_, _, _)
FramebufferResolve(c, List, i) ==
    IF i > Len(List) \/ c.thrown THEN c
    ELSE FramebufferResolve(ResolveOne(c, List[i]), List, i + 1)

\* an InvalidateAttachments that issues no command
FramebufferInvalidateNothing(c, Attachments_) == c

\* Framebuffer::InvalidateAttachments
FramebufferInvalidateAttachments(c, Attachments_) ==
    [c EXCEPT !.g = Call(@, "glInvalidateNamedFramebufferData",
                         [fb |-> c.o.mId, attachments |-> Attachments_])]

(* ------------------------ Renderer::setup ------------------------------ *)
\* the uniform buffers of the renderer
UniformBuffers == {"mSkyboxUB", "mTransformUB", "mShadingUB", "mBaseInfoUB"}

\* the members of a Renderer next to its two framebuffers, default-constructed
RendererMembers ==
    [mFullScreenQuad |-> MeshGeometryDefaultCtor(GLInit).o,
     mSkybox         |-> MeshGeometryDefaultCtor(GLInit).o,
     mPbrModel       |-> PbrMeshDefaultCtor(GLInit).o,
     mGlass          |-> PbrMeshDefaultCtor(GLInit).o,
     mEmptyVao       |-> MeshGeometryDefaultCtor(GLInit).o,
     mSkyboxProgram  |-> ShaderProgramDefaultCtor(GLInit).o,
     mTonemapProgram |-> ShaderProgramDefaultCtor(GLInit).o,
     mEnvPtr         |-> 0,
     mSkyboxUB       |-> UniformBufferDefaultCtor(GLInit).o,
     mTransformUB    |-> UniformBufferDefaultCtor(GLInit).o,
     mShadingUB      |-> UniformBufferDefaultCtor(GLInit).o,
     mBaseInfoUB     |-> UniformBufferDefaultCtor(GLInit).o]

\* a statement of a function body
S(op, a, b) == [op |-> op, a |-> a, b |-> b]

\* the body of Renderer::setup; glFrontFace(GL_CCW) sets the initial value
SetupBody ==
    <<S("glEnable", "GL_CULL_FACE", 0),
      S("glEnable", "GL_TEXTURE_CUBE_MAP_SEAMLESS", 0),
      S("MeshGeometry", "mEmptyVao", TRUE),
      S("Create", "mSkyboxUB", 0),
      S("Create", "mTransformUB", 0),
      S("Create", "mShadingUB", 0),
      S("Create", "mBaseInfoUB", 0),
      S("ShaderProgram", "mTonemapProgram", 0),
      S("ShaderProgram", "mSkyboxProgram", 0),
      S("Environment", "mEnvPtr", "environment.hdr"),
      S("MeshGeometry", "mSkybox", FALSE),
      S("PbrMesh", "mPbrModel", 0),
      S("PbrMesh", "mGlass", 0)>>

\* the texture names of the meshes shipped, and the indeterminate pointers
\* their images start with
MeshTextureNames == [t \in TextureTypeSet |-> "a.png"]

MeshJunk == [t \in TextureTypeSet |-> "null"]

\* std::make_shared<Environment>(Image::fromFile(file, 3))
MakeEnvironment(file, gl) ==
    IF ImageFromFile(file, 3, "null", gl).thrown
    THEN [thrown |-> TRUE, g |-> ImageFromFile(file, 3, "null", gl).g]
    ELSE [thrown |-> FALSE,
          g |-> MakeShared(EnvironmentCtor(ImageFromFile(file, 3, "null", gl).img, TRUE,
                                           ImageFromFile(file, 3, "null", gl).g).o,
                           EnvironmentCtor(ImageFromFile(file, 3, "null", gl).img, TRUE,
                                           ImageFromFile(file, 3, "null", gl).g).g)]

\* PbrMesh{ mesh, mEnvPtr }: the constructed temporary holds one more
\* reference to the environment
WithEnvironment(t, addr) ==
    IF t.thrown \/ addr = 0 THEN t
    ELSE [t EXCEPT !.o.mEnvironmentPtr = addr, !.g.heap[addr].refs = @ + 1]

\* member = T{...} for a temporary t whose constructor may have thrown
AssignOrThrow(c, f, t) ==
    IF t.thrown THEN [c EXCEPT !.thrown = TRUE, !.g = t.g]
    ELSE PutMember(c, f, MoveAssignTemporary(c.o[f], [o |-> t.o, g |-> t.g]))

SetupStatement(st, c) ==
    CASE st.op = "glEnable" -> [c EXCEPT !.g = glEnable(@, st.a)]
      [] st.op = "MeshGeometry" ->
            PutMember(c, st.a,
                      MoveAssignTemporary(c.o[st.a], MeshGeometryCtor(MaxFaces, st.b, c.g)))
      [] st.op = "Create" -> PutMember(c, st.a, UniformBufferCreate(Member(c, st.a)))
      [] st.op = "ShaderProgram" ->
            PutMember(c, st.a,
                      MoveAssignTemporary(c.o[st.a],
                                          ShaderProgramCtor(ShadersCompile, TRUE, c.g)))
      [] st.op = "Environment" ->
            IF MakeEnvironment(st.b, c.g).thrown
            THEN [c EXCEPT !.thrown = TRUE, !.g = MakeEnvironment(st.b, c.g).g]
            ELSE [c EXCEPT !.o.mEnvPtr = MakeEnvironment(st.b, c.g).g.nextAddr,
                           !.g = MakeEnvironment(st.b, c.g).g]
      [] st.op = "PbrMesh" ->
            AssignOrThrow(c, st.a,
                          WithEnvironment(PbrMeshCtor(MaxFaces, MeshTextureNames, MeshJunk,
                                                      0, c.g),
                                          c.o.mEnvPtr))

RECURSIVE RunSetup(_, _)
RunSetup(i, c) ==
    IF i > Len(SetupBody) \/ c.thrown THEN c
    ELSE RunSetup(i + 1, SetupStatement(SetupBody[i], c))

\* Renderer::setup on the renderer r that initialize left: the members, the
\* GL context, and whether an exception left the function
RendererSetup(r) ==
    RunSetup(1, [o |-> RendererMembers, g |-> r.g, thrown |-> FALSE])

(* ------------------------- view and scene ------------------------------ *)
\* SceneSettings::NumLights
NumLights == 3

\* the Application constants the view starts from and is changed by
ViewDistance == 400

ViewFOV == 35

ZoomSpeed == 32

\* a glm::vec4 from a vec3 and w; glm::vec4{} is the zero vector
Vec4(v, w) == v \o <<w>>

ZeroVec4 == <<0, 0, 0, 0>>

\* glm::radians of an angle in degrees, kept symbolic
radians(deg) == [radiansOf |-> deg]

\* matrices are products of factors, kept symbolic: a product is the
\* sequence of its factors
perspectiveFov(fov, width, height, near, far) ==
    <<[m |-> "perspectiveFov", fov |-> fov, width |-> width, height |-> height,
       near |-> near, far |-> far]>>

eulerAngleXY(angleX, angleY) == <<[m |-> "eulerAngleXY", x |-> angleX, y |-> angleY]>>

translate(v) == <<[m |-> "translate", v |-> v]>>

\* glm::vec3{ glm::inverse(M) * glm::vec4{0, 0, 0, 1} }
InverseTimesOrigin(M) == [inverse |-> M, times |-> <<0, 0, 0, 1>>]

\* the settings Application::Application leaves: three directional lights,
\* all disabled, of radiance glm::vec3{1.0f}
ViewInit == [pitch |-> 0, yaw |-> 0, distance |-> ViewDistance, fov |-> ViewFOV]

SceneInit ==
    [pitch |-> 0, yaw |-> 0,
     lights |-> [i \in 0..(NumLights - 1) |->
                    [direction |-> CASE i = 0 -> <<-1, 0, 0>>
                                     [] i = 1 -> <<1, 0, 0>>
                                     [] i = 2 -> <<0, -1, 0>>,
                     radiance |-> <<1, 1, 1>>,
                     enabled |-> FALSE]]]

(* ------------------------- Renderer::render ---------------------------- *)
\* a loop over scene.lights that gives every light its configured radiance
ShadingLightsAlwaysLit(scene) ==
    [i \in 0..(NumLights - 1) |->
        [direction |-> Vec4(scene.lights[i].direction, 0),
         radiance |-> Vec4(scene.lights[i].radiance, 0)]]

\* the loop over scene.lights: every slot is written, that of a disabled
\* light with glm::vec4{} as its radiance
ShadingLights(scene) ==
    [i \in 0..(NumLights - 1) |->
        [direction |-> Vec4(scene.lights[i].direction, 0),
         radiance |-> IF scene.lights[i].enabled
                      THEN Vec4(scene.lights[i].radiance, 0)
                      ELSE ZeroVec4]]

\* a renderScene that leaves binding point 0 as the skybox set it
RenderSceneBodyUnbound ==
    <<S("modelMatrix", 0, 0),
      S("RenderPbr", "mPbrModel", 0),
      S("RenderPbr", "mGlass", 0)>>

\* renderScene: the model matrix is set and uploaded, then the two meshes
RenderSceneBody ==
    <<S("modelMatrix", 0, 0),
      S("BindUB", "mTransformUB", 0),
      S("RenderPbr", "mPbrModel", 0),
      S("RenderPbr", "mGlass", 0)>>

\* the three colour attachments Resolve copies
ResolveList ==
    <<[attach1 |-> "GL_COLOR_ATTACHMENT0", attach2 |-> "GL_COLOR_ATTACHMENT0",
       mask |-> "GL_COLOR_BUFFER_BIT", filter |-> "GL_NEAREST"],
      [attach1 |-> "GL_COLOR_ATTACHMENT1", attach2 |-> "GL_COLOR_ATTACHMENT1",
       mask |-> "GL_COLOR_BUFFER_BIT", filter |-> "GL_NEAREST"],
      [attach1 |-> "GL_COLOR_ATTACHMENT2", attach2 |-> "GL_COLOR_ATTACHMENT2",
       mask |-> "GL_COLOR_BUFFER_BIT", filter |-> "GL_NEAREST"]>>

ColorAttachments ==
    <<"GL_COLOR_ATTACHMENT0", "GL_COLOR_ATTACHMENT1", "GL_COLOR_ATTACHMENT2">>

\* the body of Renderer::render, statement by statement; "pass" names the
\* part of the frame the statements after it belong to
RenderBody ==
    <<S("glfwGetFramebufferSize", 0, 0),
      S("ResizeAll", "mFramebuffer", 1),
      S("ResizeAll", "mResolveFramebuffer", 2),
      S("assert", 0, 0),
      S("matrices", 0, 0),
      S("pass", "clear", 0),
      S("Bind", "mFramebuffer", 0),
      S("glDepthMask", TRUE, 0),
      S("glClearColor", ZeroVec4, 0),
      S("glClear", {"GL_COLOR_BUFFER_BIT", "GL_DEPTH_BUFFER_BIT"}, 0),
      S("pass", "skybox", 0),
      S("glDisable", "GL_BLEND", 0),
      S("glDepthMask", FALSE, 0),
      S("glDisable", "GL_DEPTH_TEST", 0),
      S("skyboxUniforms", 0, 0),
      S("BindUB", "mSkyboxUB", 0),
      S("Use", "mSkyboxProgram", 0),
      S("BindTextureUnit", "mEnvPtr", 0),
      S("RenderMesh", "mSkybox", 0),
      S("pass", "opaque", 0),
      S("shadingUniforms", 0, 0),
      S("BindUB", "mShadingUB", 1),
      S("glDepthMask", TRUE, 0),
      S("glEnable", "GL_DEPTH_TEST", 0),
      S("transformUniforms", 0, 0),
      S("opaquePass", 1, 0),
      S("BindUB", "mBaseInfoUB", 2),
      S("renderScene", 0, 0),
      S("pass", "transparent", 0),
      S("glDepthMask", FALSE, 0),
      S("glEnable", "GL_DEPTH_TEST", 0),
      S("glEnable", "GL_BLEND", 0),
      S("glBlendFunc", "GL_ONE", "GL_ONE"),
      S("opaquePass", 0, 0),
      S("BindUB", "mBaseInfoUB", 2),
      S("renderScene", 0, 0),
      S("pass", "resolve", 0),
      S("Unbind", "mFramebuffer", 0),
      S("glDisable", "GL_BLEND", 0),
      S("Resolve", "mFramebuffer", "mResolveFramebuffer"),
      S("InvalidateAttachments", "mFramebuffer", ColorAttachments),
      S("pass", "composite", 0),
      S("Use", "mTonemapProgram", 0),
      S("try", 0, 0),
      S("glfwSwapBuffers", 0, 0)>>

\* the frame of a call of render: the renderer's members as *this, the
\* function-local static of PbrMesh::Render, the window's drawable size, the
\* two arguments, the enumeration orders of the two attachment maps, the
\* locals, and the trace of the frame, empty
RenderFrameOf(members, pbrProgram, gl, window, view, scene, orders) ==
    [o |-> members, pbrProgram |-> pbrProgram,
     g |-> [gl EXCEPT !.calls = <<>>, !.pass = ""],
     thrown |-> FALSE, window |-> window, view |-> view, scene |-> scene,
     orders |-> orders,
     local |-> [fbWidth |-> 0, fbHeight |-> 0, projectionMatrix |-> <<>>,
                viewRotationMatrix |-> <<>>, viewMatrix |-> <<>>]]

\* the host-side value and the GPU copy of every uniform buffer
HostData(c) == [u \in UniformBuffers |-> c.o[u].mData]

GpuData(c) ==
    [u \in UniformBuffers |->
        IF c.o[u].mId \in DOMAIN c.g.obj THEN c.g.obj[c.o[u].mId].data ELSE NoData]

\* the commands a statement added to the trace get the two copies noted
Note(c) ==
    [c EXCEPT !.g.calls =
        [k \in DOMAIN @ |->
            IF @[k].noted THEN @[k]
            ELSE [@[k] EXCEPT !.noted = TRUE, !.host = HostData(c),
                              !.gpu = GpuData(c)]]]

\* mesh.Render() for a PbrMesh member: the static pbrProgram and the GL
\* context are what the call changes
RenderPbrMember(c, f) ==
    [c EXCEPT
        !.pbrProgram =
            PbrMeshRender([o |-> c.o[f], pbrProgram |-> c.pbrProgram, g |-> c.g]).pbrProgram,
        !.g = PbrMeshRender([o |-> c.o[f], pbrProgram |-> c.pbrProgram, g |-> c.g]).g]

\* the try block: the three textures of mResolveFramebuffer go to the units
\* 0 to 2, GetRenderTarget throwing for a missing one, then mEmptyVao.Render()
RECURSIVE CompositeTry(_, _)
CompositeTry(c, i) ==
    IF i > Len(ColorAttachments)
    THEN [c EXCEPT !.g = MeshGeometryRender(Member(c, "mEmptyVao")).g]
    ELSE IF ColorAttachments[i] \notin DOMAIN c.o.mResolveFramebuffer.mRenderbuffers
    THEN [c EXCEPT !.thrown = TRUE]
    ELSE CompositeTry(
            [c EXCEPT !.g =
                TextureBindTextureUnit(
                    Ctx(TargetAt(c.o.mResolveFramebuffer, ColorAttachments[i], c.g), @),
                    i - 1).g],
            i + 1)

\* catch (std::exception &e): the message is printed and render goes on
Catch(c) == [c EXCEPT !.thrown = FALSE]

\* the framebuffers of a Resolve call as *this and Dst
ResolvePair(c, src, dst) == [o |-> c.o[src], other |-> c.o[dst], g |-> c.g, thrown |-> FALSE]

RECURSIVE RunRender(_, _, _)
RenderStatement(st, c) ==
    CASE st.op = "glfwGetFramebufferSize" ->
            [c EXCEPT !.local.fbWidth = c.window[1], !.local.fbHeight = c.window[2]]
      [] st.op = "ResizeAll" ->
            [PutMember(c, st.a,
                       FramebufferResizeAll(Member(c, st.a), c.local.fbWidth,
                                            c.local.fbHeight, c.orders[st.b]))
                EXCEPT !.g = Call(@, "ResizeAll",
                                  [fb |-> c.o[st.a].mId,
                                   size |-> <<c.local.fbWidth, c.local.fbHeight>>])]
      [] st.op = "assert" ->
            IF "GL_COLOR_ATTACHMENT0" \notin DOMAIN c.o.mFramebuffer.mRenderbuffers
            THEN [c EXCEPT !.thrown = TRUE]
            ELSE [c EXCEPT !.thrown =
                    \/ TargetAt(c.o.mFramebuffer, "GL_COLOR_ATTACHMENT0", c.g).mWidth
                          # c.local.fbWidth
                    \/ TargetAt(c.o.mFramebuffer, "GL_COLOR_ATTACHMENT0", c.g).mHeight
                          # c.local.fbHeight]
      [] st.op = "matrices" ->
            [c EXCEPT
                !.local.projectionMatrix =
                    perspectiveFov(
                        radians(c.view.fov),
                        TargetAt(c.o.mFramebuffer, "GL_COLOR_ATTACHMENT0", c.g).mWidth,
                        TargetAt(c.o.mFramebuffer, "GL_COLOR_ATTACHMENT0", c.g).mHeight,
                        1, 10000),
                !.local.viewRotationMatrix =
                    eulerAngleXY(radians(c.view.pitch), radians(c.view.yaw)),
                !.local.viewMatrix =
                    translate(<<0, 0, -c.view.distance>>)
                        \o eulerAngleXY(radians(c.view.pitch), radians(c.view.yaw))]
      [] st.op = "pass" -> [c EXCEPT !.g.pass = st.a]
      [] st.op = "Bind" -> [c EXCEPT !.g = FramebufferBind(Member(c, st.a)).g]
      [] st.op = "Unbind" -> [c EXCEPT !.g = FramebufferUnbind(Member(c, st.a)).g]
      [] st.op = "glDepthMask" -> [c EXCEPT !.g = glDepthMask(@, st.a)]
      [] st.op = "glClearColor" -> [c EXCEPT !.g.clearColor = st.a]
      [] st.op = "glClear" -> [c EXCEPT !.g = glClear(@, st.a)]
      [] st.op = "glEnable" -> [c EXCEPT !.g = glEnable(@, st.a)]
      [] st.op = "glDisable" -> [c EXCEPT !.g = glDisable(@, st.a)]
      [] st.op = "glBlendFunc" -> [c EXCEPT !.g = glBlendFunc(@, st.a, st.b)]
      [] st.op = "skyboxUniforms" ->
            [c EXCEPT !.o.mSkyboxUB.mData =
                SetField(@, "skyViewProjectionMatrix",
                         c.local.projectionMatrix \o c.local.viewRotationMatrix)]
      [] st.op = "shadingUniforms" ->
            [c EXCEPT !.o.mShadingUB.mData =
                SetField(SetField(@, "eyePosition",
                                  [xyz |-> InverseTimesOrigin(c.local.viewMatrix),
                                   w |-> 0]),
                         "lights", ShadingLights(c.scene))]
      [] st.op = "transformUniforms" ->
            [c EXCEPT !.o.mTransformUB.mData =
                SetField(SetField(@, "viewProjectionMatrix",
                                  c.local.projectionMatrix \o c.local.viewMatrix),
                         "modelMatrix",
                         translate(<<10, 0, 0>>)
                            \o eulerAngleXY(radians(c.scene.pitch), radians(c.scene.yaw)))]
      [] st.op = "modelMatrix" ->
            [c EXCEPT !.o.mTransformUB.mData =
                SetField(@, "modelMatrix",
                         eulerAngleXY(radians(c.scene.pitch), radians(c.scene.yaw)))]
      [] st.op = "opaquePass" ->
            [c EXCEPT !.o.mBaseInfoUB.mData = SetField(@, "opaquePass", st.a)]
      [] st.op = "BindUB" -> PutMember(c, st.a, UniformBufferBind(Member(c, st.a), st.b))
      [] st.op = "Use" -> [c EXCEPT !.g = ShaderProgramUse(Member(c, st.a)).g]
      [] st.op = "BindTextureUnit" ->
            [c EXCEPT !.g = TextureBindTextureUnit(Ctx(c.g.heap[c.o[st.a]].o, @), st.b).g]
      [] st.op = "RenderMesh" -> [c EXCEPT !.g = MeshGeometryRender(Member(c, st.a)).g]
      [] st.op = "RenderPbr" -> RenderPbrMember(c, st.a)
      [] st.op = "renderScene" -> RunRender(RenderSceneBody, 1, c)
      [] st.op = "Resolve" ->
            [c EXCEPT !.g = FramebufferResolve(ResolvePair(c, st.a, st.b),
                                               ResolveList, 1).g,
                      !.thrown = FramebufferResolve(ResolvePair(c, st.a, st.b),
                                                    ResolveList, 1).thrown]
      [] st.op = "InvalidateAttachments" ->
            [c EXCEPT !.g = FramebufferInvalidateAttachments(Member(c, st.a), st.b).g]
      [] st.op = "try" -> Catch(CompositeTry(c, 1))
      [] st.op = "glfwSwapBuffers" -> [c EXCEPT !.g = Call(@, "glfwSwapBuffers", [window |-> "m_window"])]

\* the statements of a body in program order; an exception ends the body
RunRender(body, i, c) ==
    IF i > Len(body) \/ c.thrown THEN c
    ELSE RunRender(body, i + 1, Note(RenderStatement(body[i], c)))

\* Renderer::render
RendererRender(c) == RunRender(RenderBody, 1, c)

(* ------------------------- Application::run ---------------------------- *)
\* the keys and actions the window system may report
Keys == {"GLFW_KEY_F1", "GLFW_KEY_F2", "GLFW_KEY_F3", "GLFW_KEY_ESCAPE", "GLFW_KEY_SPACE"}

KeyActions == {"GLFW_PRESS", "GLFW_RELEASE", "GLFW_REPEAT"}

MouseButtons == {"GLFW_MOUSE_BUTTON_1", "GLFW_MOUSE_BUTTON_2", "GLFW_MOUSE_BUTTON_3"}

ButtonActions == {"GLFW_PRESS", "GLFW_RELEASE"}

\* the positions the cursor may be reported at
CursorPositions == (0..MaxCursor) \X (0..MaxCursor)

OrbitSpeed == 1

\* the scroll offsets the window system may report
ScrollOffsets == {-1, 1}

\* the application once initialize and setup came back: the window with its
\* drawable size, the members as the constructor set them, the renderer's
\* members next to its framebuffers, and the static pbrProgram of
\* PbrMesh::Render, which no call has initialised beyond its default
\* constructor.  buttons and cursor are the mouse as the window system has
\* it: the buttons held down and the position of the cursor; budget is the
\* number of events glfwPollEvents delivers in the run and presses the number
\* of key presses among them
ApplicationRunning(size, members) ==
    [running |-> TRUE, size |-> size, shouldClose |-> FALSE,
     m_viewSettings |-> ViewInit, m_sceneSettings |-> SceneInit,
     m_mode |-> "None", m_prevCursorX |-> 0, m_prevCursorY |-> 0,
     cursorMode |-> "GLFW_CURSOR_NORMAL", buttons |-> {}, cursor |-> <<0, 0>>,
     renderer |-> members, pbrProgram |-> ShaderProgramDefaultCtor(GLInit).o,
     frames |-> 0, events |-> 0, budget |-> MaxEvents,
     presses |-> [key \in Keys |-> 0],
     phase |-> "loop", m_window |-> "window", error |-> ""]

\* the application when run is called: m_window(nullptr), the renderer as
\* constructed
ApplicationCtor ==
    [ApplicationRunning(InitialSize, RendererMembers) EXCEPT
        !.running = FALSE, !.phase = "constructed", !.m_window = "nullptr"]

\* a run that goes on after an exception
FailedButGoesOn(a, what) == [a EXCEPT !.phase = "initialized", !.error = what]

\* an exception leaves run: nothing of it is executed any more
Failed(a, what) == [a EXCEPT !.running = FALSE, !.phase = "failed", !.error = what]

\* the members of the renderer, the two framebuffers among them
AllMembers == 
    [f \in DOMAIN app.renderer \cup {"mFramebuffer", "mResolveFramebuffer"} |->
        IF f = "mFramebuffer" THEN slot[1]
        ELSE IF f = "mResolveFramebuffer" THEN slot[2]
        ELSE app.renderer[f]]

\* the frame render is called with
ThisFrame(order1, order2) ==
    RenderFrameOf(AllMembers, app.pbrProgram, g, app.size, app.m_viewSettings,
                  app.m_sceneSettings, <<order1, order2>>)

\* the objects of the slots once render came back with the frame r
SlotsAfter(r) ==
    [o |-> [slot EXCEPT ![1] = r.o.mFramebuffer, ![2] = r.o.mResolveFramebuffer],
     g |-> r.g]

AppAfter(r) ==
    [app EXCEPT !.renderer = [f \in DOMAIN app.renderer |-> r.o[f]],
                !.pbrProgram = r.pbrProgram,
                !.frames = IF @ < 2 THEN @ + 1 ELSE @]

\* the step to what render left in the frame r; an exception or a failed
\* assert of render ends the run
Rendered(r) ==
    /\ Commit(SlotsAfter(r),
              IF r.thrown THEN Op("frame", 0, 0, FALSE)
              ELSE OpSize("frame", 0, app.size[1], app.size[2]))
    /\ app' = IF r.thrown THEN Failed(AppAfter(r), "render") ELSE AppAfter(r)

\* a loop that does not test the close request
RenderFrameAlways(order1, order2) ==
    /\ app.running
    /\ Rendered(RendererRender(ThisFrame(order1, order2)))
    /\ UNCHANGED <<cls, image>>

\* one pass of the loop of Application::run, up to glfwPollEvents:
\* while (!glfwWindowShouldClose(m_window)) renderer->render(...)
RenderFrame(order1, order2) ==
    /\ app.running
    /\ ~app.shouldClose
    /\ Rendered(RendererRender(ThisFrame(order1, order2)))
    /\ UNCHANGED <<cls, image>>

\* glfwPollEvents delivers events after a frame, budget of them in a run
Polling == app.running /\ lastOp.op # "setup" /\ app.events < app.budget

\* a handler in which every key toggles the first light
LightOfKeyFirst(key) == 0

\* the light a key toggles
LightOfKey(key) ==
    CASE key = "GLFW_KEY_F1" -> 0
      [] key = "GLFW_KEY_F2" -> 1
      [] key = "GLFW_KEY_F3" -> 2

\* the event is delivered: presses counts the GLFW_PRESS events of each key
Delivered(a, key, action) ==
    [a EXCEPT !.events = @ + 1,
              !.presses = IF action = "GLFW_PRESS" THEN [@ EXCEPT ![key] = @ + 1] ELSE @]

\* Application::keyCallback
keyCallback(key, action) ==
    /\ Polling
    /\ app' = IF action # "GLFW_PRESS" THEN Delivered(app, key, action)
              ELSE IF key \in {"GLFW_KEY_F1", "GLFW_KEY_F2", "GLFW_KEY_F3"}
              THEN [Delivered(app, key, action) EXCEPT
                       !.m_sceneSettings.lights[LightOfKey(key)].enabled = ~@]
              ELSE IF key = "GLFW_KEY_ESCAPE"
              THEN [Delivered(app, key, action) EXCEPT !.shouldClose = TRUE]
              ELSE Delivered(app, key, action)
    /\ lastOp' = OpNames("keyCallback", 0, TRUE, <<key, action>>)
    /\ UNCHANGED <<cls, slot, g, allocOps, image>>

\* Application::mouseScrollCallback
mouseScrollCallback(yoffset) ==
    /\ Polling
    /\ app' = [app EXCEPT !.events = @ + 1,
                          !.m_viewSettings.distance = @ + ZoomSpeed * (-yoffset)]
    /\ lastOp' = Op("mouseScrollCallback", 0, 0, TRUE)
    /\ UNCHANGED <<cls, slot, g, allocOps, image>>

\* the mode a press of button starts when none is on
ModeOfButton(button, mode) ==
    CASE button = "GLFW_MOUSE_BUTTON_1" -> "RotatingView"
      [] button = "GLFW_MOUSE_BUTTON_2" -> "RotatingScene"
      [] OTHER -> mode

\* m_mode after the two if statements on action and button
ModeAfter(mode, button, action) ==
    IF action = "GLFW_RELEASE"
       /\ button \in {"GLFW_MOUSE_BUTTON_1", "GLFW_MOUSE_BUTTON_2"}
    THEN "None"
    ELSE IF action = "GLFW_PRESS" /\ mode = "None" THEN ModeOfButton(button, mode)
    ELSE mode

\* if (oldMode != self->m_mode): the cursor is released or captured, and on
\* capture glfwGetCursorPos stores its position
ModeChanged(a, oldMode) ==
    IF oldMode = a.m_mode THEN a
    ELSE IF a.m_mode = "None" THEN [a EXCEPT !.cursorMode = "GLFW_CURSOR_NORMAL"]
    ELSE [a EXCEPT !.cursorMode = "GLFW_CURSOR_DISABLED",
                   !.m_prevCursorX = a.cursor[1], !.m_prevCursorY = a.cursor[2]]

\* Application::mouseButtonCallback; the window system reports a press of a
\* button that was up and a release of one that was down
mouseButtonCallback(button, action) ==
    /\ Polling
    /\ (action = "GLFW_PRESS") = (button \notin app.buttons)
    /\ app' = ModeChanged(
                  [app EXCEPT !.events = @ + 1,
                              !.buttons = IF action = "GLFW_PRESS" THEN @ \cup {button}
                                          ELSE @ \ {button},
                              !.m_mode = ModeAfter(@, button, action)],
                  app.m_mode)
    /\ lastOp' = Op("mouseButtonCallback", 0, 0, TRUE)
    /\ UNCHANGED <<cls, slot, g, allocOps, image>>

\* yaw and pitch of the settings s after a drag by dx, dy
Rotated(s, dx, dy) ==
    [s EXCEPT !.yaw = @ + OrbitSpeed * dx, !.pitch = @ + OrbitSpeed * dy]

\* the body of mousePositionCallback for an application a
CursorMoved(a, xpos, ypos) ==
    IF a.m_mode = "None" THEN a
    ELSE [a EXCEPT !.m_sceneSettings =
                       IF a.m_mode = "RotatingScene"
                       THEN Rotated(@, xpos - a.m_prevCursorX, ypos - a.m_prevCursorY)
                       ELSE @,
                   !.m_viewSettings =
                       IF a.m_mode = "RotatingView"
                       THEN Rotated(@, xpos - a.m_prevCursorX, ypos - a.m_prevCursorY)
                       ELSE @,
                   !.m_prevCursorX = xpos, !.m_prevCursorY = ypos]

\* Application::mousePositionCallback: the cursor moved to xpos, ypos
mousePositionCallback(xpos, ypos) ==
    /\ Polling
    /\ <<xpos, ypos>> # app.cursor
    /\ app' = CursorMoved([app EXCEPT !.events = @ + 1, !.cursor = <<xpos, ypos>>],
                          xpos, ypos)
    /\ lastOp' = OpSize("mousePositionCallback", 0, xpos - app.cursor[1],
                        ypos - app.cursor[2])
    /\ UNCHANGED <<cls, slot, g, allocOps, image>>

\* the drawable size of the window changes, and Application::
\* framebufferSizeCallback calls m_onResize, the lambda setup returned
framebufferSizeCallback(width, height) ==
    /\ Polling
    /\ app' = [app EXCEPT !.events = @ + 1, !.size = <<width, height>>]
    /\ g' = glViewport(g, width, height)
    /\ lastOp' = OpSize("framebufferSizeCallback", 0, width, height)
    /\ UNCHANGED <<cls, slot, allocOps, image>>

\* the user closes the window: GLFW sets the close flag, no callback of the
\* application is registered for it
windowClose ==
    /\ Polling
    /\ app' = [app EXCEPT !.events = @ + 1, !.shouldClose = TRUE]
    /\ lastOp' = Op("windowClose", 0, 0, TRUE)
    /\ UNCHANGED <<cls, slot, g, allocOps, image>>

\* what initialize meets: glfwCreateWindow returns no window, the loader
\* fails, CheckStatus of one of the framebuffers is not GL_FRAMEBUFFER_COMPLETE
InitializeOutcomes ==
    {"ok", "no window", "no loader", "mFramebuffer incomplete",
     "mResolveFramebuffer incomplete"}

\* the message of the std::runtime_error initialize throws
InitializeError(outcome) ==
    CASE outcome = "no window" -> "Failed to create OpenGL context"
      [] outcome = "no loader" -> "Failed to initialize OpenGL extensions loader"
      [] outcome \in {"mFramebuffer incomplete", "mResolveFramebuffer incomplete"} ->
            "Framebuffer is not complete: "
      [] OTHER -> ""

\* Renderer::initialize up to its return or its throw: the two shared
\* pointers (NoObject: still null), the GL context, and the exception
RendererInitializeTo(order1, order2, outcome) ==
    CASE outcome \in {"no window", "no loader"} ->
            [mFramebuffer |-> NoObject, mResolveFramebuffer |-> NoObject, g |-> GLInit,
             thrown |-> TRUE]
      [] outcome = "mFramebuffer incomplete" ->
            [mFramebuffer |->
                 InitializeFramebuffer(RenderbufferCalls, FALSE, order1, GLInit).o,
             mResolveFramebuffer |-> NoObject,
             g |-> InitializeFramebuffer(RenderbufferCalls, FALSE, order1, GLInit).g,
             thrown |-> TRUE]
      [] outcome = "mResolveFramebuffer incomplete" ->
            [mFramebuffer |-> RendererInitialize(order1, order2).mFramebuffer,
             mResolveFramebuffer |-> RendererInitialize(order1, order2).mResolveFramebuffer,
             g |-> RendererInitialize(order1, order2).g,
             thrown |-> TRUE]
      [] OTHER ->
            [mFramebuffer |-> RendererInitialize(order1, order2).mFramebuffer,
             mResolveFramebuffer |-> RendererInitialize(order1, order2).mResolveFramebuffer,
             g |-> glViewport(RendererInitialize(order1, order2).g, InitialSize[1],
                              InitialSize[2]),
             thrown |-> FALSE]

\* the step to what initialize left in r: m_window is assigned when it returns
Initialized(r, size, outcome) ==
    /\ slot' = RendererSlots(r)
    /\ g' = r.g
    /\ app' = IF r.thrown THEN Failed(app, InitializeError(outcome))
              ELSE [app EXCEPT !.phase = "initialized", !.m_window = "window",
                               !.size = size]
    /\ lastOp' = OpNames("initialize", 0, ~r.thrown, <<outcome>>)
    /\ allocOps' = 1

\* m_window = renderer->initialize(DisplaySizeX, DisplaySizeY, DisplaySamples);
\* size is the drawable size the window then has
Initialize(order, size, outcome) ==
    /\ app.phase = "constructed"
    /\ Initialized(RendererInitializeTo(order, order, outcome), size, outcome)
    /\ UNCHANGED <<cls, image>>

\* the step to what setup left in r
SetUp(r) ==
    /\ g' = r.g
    /\ app' = IF r.thrown THEN Failed(app, "setup")
              ELSE [app EXCEPT !.phase = "loop", !.running = TRUE, !.renderer = r.o]
    /\ lastOp' = Op("setup", 0, 0, ~r.thrown)

\* m_onResize = renderer->setup();
Setup ==
    /\ app.phase = "initialized"
    /\ SetUp(RendererSetup([g |-> g]))
    /\ UNCHANGED <<cls, slot, allocOps, image>>

\* the members Renderer::shutdown releases, in its order
ShutdownBody ==
    <<"mResolveFramebuffer", "mFramebuffer", "mEmptyVao", "mSkyboxUB", "mTransformUB",
      "mShadingUB", "mBaseInfoUB", "mSkybox", "mPbrModel", "mGlass", "mFullScreenQuad",
      "mTonemapProgram", "mSkyboxProgram">>

\* mEnvPtr->Release(): setup made the environment, so the pointer is not null
ReleasePointee(c, f) ==
    IF c.o[f] \notin DOMAIN c.g.heap THEN c
    ELSE [c EXCEPT !.g = [EnvironmentRelease(Ctx(c.g.heap[c.o[f]].o, c.g)).g EXCEPT
                             !.heap[c.o[f]].o =
                                 EnvironmentRelease(Ctx(c.g.heap[c.o[f]].o, c.g)).o]]

RECURSIVE RunShutdown(_, _)
RunShutdown(i, c) ==
    IF i > Len(ShutdownBody) THEN ReleasePointee(c, "mEnvPtr")
    ELSE RunShutdown(i + 1, PutMember(c, ShutdownBody[i],
                                      ReleaseOf(Member(c, ShutdownBody[i]))))

\* Renderer::shutdown on the members c.o
RendererShutdown(c) == RunShutdown(1, c)

\* the step to what shutdown left in r: run returns
ShutDown(r) ==
    /\ slot' = [slot EXCEPT ![1] = r.o.mFramebuffer, ![2] = r.o.mResolveFramebuffer]
    /\ g' = r.g
    /\ app' = [app EXCEPT !.running = FALSE, !.phase = "done",
                          !.renderer = [f \in DOMAIN app.renderer |-> r.o[f]]]
    /\ lastOp' = Op("shutdown", 0, 0, TRUE)

\* the loop condition fails: renderer->shutdown();
Shutdown ==
    /\ app.running
    /\ app.shouldClose
    /\ ShutDown(RendererShutdown([o |-> AllMembers, g |-> g]))
    /\ UNCHANGED <<cls, allocOps, image>>

\* Application::run is called on a constructed application
InitApp ==
    /\ cls = "Framebuffer"
    /\ slot = [s \in Slots |-> NoObject]
    /\ g = GLInit
    /\ app = ApplicationCtor
    /\ lastOp = Op("run", 0, 0, TRUE)
    /\ allocOps = 0
    /\ image = NoImage

\* the steps of run before its loop
Starting ==
    \/ \E order \in Orders, size \in Sizes, outcome \in InitializeOutcomes :
            Initialize(order, size, outcome)
    \/ Setup

NextApp ==
    \/ Starting
    \/ \E order \in Orders : RenderFrame(order, order)
    \/ windowClose
    \/ Shutdown
    \/ \E key \in Keys, action \in KeyActions : keyCallback(key, action)
    \/ \E yoffset \in ScrollOffsets : mouseScrollCallback(yoffset)
    \/ \E sz \in Sizes : framebufferSizeCallback(sz[1], sz[2])
    \/ \E button \in MouseButtons, action \in ButtonActions :
            mouseButtonCallback(button, action)
    \/ \E pos \in CursorPositions : mousePositionCallback(pos[1], pos[2])

SpecApp == InitApp /\ [][NextApp]_vars

(* --------------------------- the mouse handlers ------------------------ *)
\* a run in which glfwPollEvents delivers mouse events only, MaxInputs of
\* them; the frames are those before the first event
InitInput ==
    /\ cls = "Framebuffer"
    /\ slot = [s \in Slots |-> NoObject]
    /\ g = GLInit
    /\ app = [ApplicationCtor EXCEPT !.budget = MaxInputs]
    /\ lastOp = Op("run", 0, 0, TRUE)
    /\ allocOps = 0
    /\ image = NoImage

NextInput ==
    \/ Starting
    \/ \E order \in Orders : app.events = 0 /\ RenderFrame(order, order)
    \/ \E button \in MouseButtons, action \in ButtonActions :
            mouseButtonCallback(button, action)
    \/ \E pos \in CursorPositions : mousePositionCallback(pos[1], pos[2])

SpecInput == InitInput /\ [][NextInput]_vars

\* a run in which glfwPollEvents delivers scroll events only, MaxScrolls of
\* them, one notch of the wheel each and at most one in a pass of the loop
InitZoom ==
    /\ cls = "Framebuffer"
    /\ slot = [s \in Slots |-> NoObject]
    /\ g = GLInit
    /\ app = [ApplicationCtor EXCEPT !.budget = MaxScrolls]
    /\ lastOp = Op("run", 0, 0, TRUE)
    /\ allocOps = 0
    /\ image = NoImage

NextZoom ==
    \/ Starting
    \/ \E order \in Orders : RenderFrame(order, order)
    \/ \E yoffset \in ScrollOffsets : lastOp.op = "frame" /\ mouseScrollCallback(yoffset)

SpecZoom == InitZoom /\ [][NextZoom]_vars

(* ------------------------------ properties ----------------------------- *)
\* the places that hold the GPU name id: an identifier field of an object in
\* a slot (the object's own, or the one of a Texture member), or the
\* identifier of a render target a shared_ptr owns
IdFields(o) ==
    CASE o.cls = "none"          -> <<>>
      [] o.cls = "Shader"        -> <<o.mShader>>
      [] o.cls = "ShaderProgram" -> <<o.mProgram>>
      [] o.cls = "Environment"   -> <<o.mId, o.mIrmap.mId, o.mSpBrdfLut.mId>>
      [] o.cls = "MeshGeometry"  -> <<o.mVbo, o.mIbo, o.mVao>>
      [] o.cls = "PbrMesh"       ->
            <<o.mVbo, o.mIbo, o.mVao, o.mAlbedo.mId, o.mNormals.mId, o.mMetalness.mId,
              o.mRoughness.mId>>
      [] OTHER                   -> <<o.mId>>

SlotHolders(id) ==
    UNION {{<<s, i>> : i \in {j \in DOMAIN IdFields(slot[s]) : IdFields(slot[s])[j] = id}} :
              s \in Slots}

HeapHolders(id) == {a \in DOMAIN g.heap : g.heap[a].o.mId = id}

\* C1: destroying a handle that still owns a GPU object frees that object:
\* after the destructor of an object ran, no name the object held in its
\* identifier fields is a live GPU object any more.
C1_DestroyFrees ==
    [][lastOp'.op = "Destroy" => HeldIds(slot[lastOp'.dst]) \cap Live(g') = {}]_vars

\* C2: over any sequence of constructions, moves, Release calls and
\* destructions no non-zero name is passed to a delete call a second time,
\* and no non-zero name is held in two places at once.
C2_ExclusiveOwnership ==
    /\ g.twice = {}
    /\ \A id \in 1..g.next :
          Cardinality(SlotHolders(id)) + Cardinality(HeapHolders(id)) <= 1

\* C2 witness: after moves, a Release and a destruction, a name has been
\* deleted while another one is live and held.
C2_Witness ==
    /\ lastOp.op \in {"MoveAssign", "Destroy"}
    /\ g.deleted # {}
    /\ \E s \in Slots : HeldIds(slot[s]) # {} /\ HeldIds(slot[s]) \subseteq Live(g)

\* C3: after B(std::move(A)) the source A is not usable and holds no name,
\* B is usable exactly when A was before the move, and B holds the names A held.
C3_MoveCtor ==
    [][lastOp'.op = "MoveCtor" =>
          /\ ~IsUsable(slot'[lastOp'.src])
          /\ HeldIds(slot'[lastOp'.src]) = {}
          /\ (IsUsable(slot'[lastOp'.dst]) <=> IsUsable(slot[lastOp'.src]))
          /\ HeldIds(slot'[lastOp'.dst]) = HeldIds(slot[lastOp'.src])]_vars

\* C3 witness: a move construction from a usable source has happened.
C3_Witness ==
    /\ lastOp.op = "MoveCtor"
    /\ IsUsable(slot[lastOp.dst])
    /\ ~IsUsable(slot[lastOp.src])

\* C4: A = std::move(B) with B another object frees what A held, leaves A
\* with the names B held and B with none; A = std::move(A) frees nothing and
\* changes neither the objects nor the GL context.
C4_MoveAssign ==
    [][lastOp'.op = "MoveAssign" =>
          IF lastOp'.dst = lastOp'.src
          THEN slot' = slot /\ g' = g
          ELSE /\ HeldIds(slot[lastOp'.dst]) \cap Live(g') = {}
               /\ HeldIds(slot'[lastOp'.dst]) = HeldIds(slot[lastOp'.src])
               /\ HeldIds(slot'[lastOp'.src]) = {}]_vars

\* C4 witness: a move assignment between two objects has freed a name the
\* destination held, and the destination holds a live name now.
C4_Witness ==
    /\ lastOp.op = "MoveAssign"
    /\ lastOp.dst # lastOp.src
    /\ g.deleted # {}
    /\ HeldIds(slot[lastOp.dst]) # {}
    /\ HeldIds(slot[lastOp.dst]) \subseteq Live(g)

\* C5: a Release that follows a Release of the same object changes neither
\* the fields of the object nor the set of live GPU objects, and a Release of
\* an object that holds no name frees nothing.
C5_ReleaseIdempotent ==
    [][lastOp'.op = "Release" =>
          /\ (lastOp.op = "Release" /\ lastOp.dst = lastOp'.dst) =>
                slot' = slot /\ Live(g') = Live(g) /\ g'.deleted = g.deleted
          /\ HeldIds(slot[lastOp'.dst]) = {} =>
                Live(g') = Live(g) /\ g'.deleted = g.deleted]_vars

\* C5 witness: Release has been called twice in a row on an object whose
\* GPU object the first call freed.
C5_Witness ==
    /\ lastOp.op = "Release"
    /\ lastOp.repeat
    /\ g.deleted # {}
    /\ HeldIds(slot[lastOp.dst]) = {}

\* C6 as stated: a default-constructed object of any class is not usable and
\* holds no name.
C6_DefaultNeverUsable ==
    lastOp.op = "DefaultCtor" =>
        ~IsUsable(slot[lastOp.dst]) /\ HeldIds(slot[lastOp.dst]) = {}

\* C6, amended: a default-constructed ShaderProgram, Texture, Environment,
\* UniformBuffer, MeshGeometry or PbrMesh is not usable and holds no name;
\* a default-constructed Renderbuffer or Framebuffer is usable: it holds the
\* name of a GPU object its constructor created.
C6_DefaultCtor ==
    lastOp.op = "DefaultCtor" =>
        IF cls \in {"Renderbuffer", "Framebuffer"}
        THEN /\ IsUsable(slot[lastOp.dst])
             /\ HeldIds(slot[lastOp.dst]) = {g.next}
             /\ g.next \in Live(g)
        ELSE /\ ~IsUsable(slot[lastOp.dst])
             /\ HeldIds(slot[lastOp.dst]) = {}

\* C6 witness: a Framebuffer has been default-constructed, and holds the
\* name of a live framebuffer object.
C6_Witness ==
    /\ lastOp.op = "DefaultCtor"
    /\ cls = "Framebuffer"
    /\ IsUsable(slot[lastOp.dst])
    /\ HeldIds(slot[lastOp.dst]) \subseteq Live(g)

\* C7: when compiling a shader or linking a program has failed, the failure
\* is in the log and the constructed Shader or ShaderProgram is not usable.
C7_FailureNotUsable ==
    cls \in {"Shader", "ShaderProgram"} /\ lastOp.op = "Ctor" /\ ~lastOp.ok =>
        g.log # {} /\ ~IsUsable(slot[lastOp.dst])

\* C8: Image::fromFile throws whenever the decoder returned no pixels, so
\* that an Environment is only ever constructed from a decoded image.
C8_NoPixelsThrows ==
    /\ lastOp.op = "fromFile" /\ ~lastOp.ok => image.state = "thrown"
    /\ cls = "Environment" /\ lastOp.op = "Ctor" => image.img.m_pixels = "decoded"

\* C9: for a material texture whose file name is empty the PbrMesh
\* constructor attempts no image load, and the constructed mesh has the 1x1
\* constant texture of that material.
C9_EmptyNameFallback ==
    cls = "PbrMesh" /\ lastOp.op = "Ctor" =>
        \A t \in TextureTypeSet :
            lastOp.names[t] = "" =>
                /\ "textures/" \notin g.loads
                /\ slot[lastOp.dst].cls = "PbrMesh"
                /\ slot[lastOp.dst][Material(t).field].mWidth = 1
                /\ slot[lastOp.dst][Material(t).field].mHeight = 1

\* C10: ResizeAll(W, H) on a framebuffer whose attachments all have the size
\* (W, H) leaves every attachment point with the same render-target object
\* and that object with the same GPU name, and creates and deletes nothing;
\* a frame rendered right after a frame of the same size leaves every
\* attachment of mFramebuffer and of mResolveFramebuffer as it was.
C10_ResizeSameSize ==
    [][/\ (lastOp'.op = "ResizeAll"
           /\ AllSized(slot[lastOp'.dst], lastOp'.size[1], lastOp'.size[2], g)) =>
                /\ slot'[lastOp'.dst].mRenderbuffers = slot[lastOp'.dst].mRenderbuffers
                /\ g'.heap = g.heap
                /\ g'.obj = g.obj
                /\ g'.deleted = g.deleted
       /\ (lastOp'.op = "render" /\ lastOp.op = "render" /\ lastOp'.size = lastOp.size) =>
                /\ slot' = slot
                /\ g'.heap = g.heap
                /\ g'.obj = g.obj
                /\ g'.deleted = g.deleted]_vars

\* C10 witness: a second frame of the same size has been rendered, with
\* mFramebuffer and mResolveFramebuffer both holding attachments.
C10_Witness ==
    /\ lastOp.op = "render"
    /\ lastOp.repeat
    /\ DOMAIN slot[1].mRenderbuffers = Attachments
    /\ DOMAIN slot[2].mRenderbuffers # {}
    /\ AllSized(slot[1], lastOp.size[1], lastOp.size[2], g)

\* the render target the framebuffer o holds at the attachment point a

\* the framebuffers a step has called ResizeAll on
Resized(op) == IF op.op = "render" THEN 1..2 ELSE {op.dst}

\* C11: ResizeAll(W, H), called directly or by a frame, keeps the set of
\* attachment points; afterwards every attachment reports the size (W, H),
\* its GPU object has storage of that size and is attached at its point of
\* the same framebuffer object; an attachment whose stored size differed
\* from (W, H) is a newly created object with a newly created GPU name.
C11_ResizeReplaces ==
    [][lastOp'.op \in {"ResizeAll", "render"} =>
          \A s \in Resized(lastOp') :
             /\ slot'[s].mId = slot[s].mId
             /\ DOMAIN slot'[s].mRenderbuffers = DOMAIN slot[s].mRenderbuffers
             /\ \A a \in DOMAIN slot[s].mRenderbuffers :
                   /\ TargetAt(slot'[s], a, g').mWidth = lastOp'.size[1]
                   /\ TargetAt(slot'[s], a, g').mHeight = lastOp'.size[2]
                   /\ TargetAt(slot'[s], a, g').mId \in Live(g')
                   /\ g'.obj[TargetAt(slot'[s], a, g').mId].w = lastOp'.size[1]
                   /\ g'.obj[TargetAt(slot'[s], a, g').mId].h = lastOp'.size[2]
                   /\ g'.obj[slot[s].mId].attach[a] = TargetAt(slot'[s], a, g').mId
                   /\ (<<TargetAt(slot[s], a, g).mWidth, TargetAt(slot[s], a, g).mHeight>>
                          # lastOp'.size) =>
                         /\ slot'[s].mRenderbuffers[a] \notin DOMAIN g.heap
                         /\ TargetAt(slot'[s], a, g').mId > g.next]_vars

\* C11 witness: a ResizeAll to another size has replaced the four
\* attachments of a framebuffer.
C11_Witness ==
    /\ lastOp.op = "ResizeAll"
    /\ lastOp.size # InitialSize
    /\ DOMAIN slot[lastOp.dst].mRenderbuffers = Attachments
    /\ \A a \in Attachments : TargetAt(slot[lastOp.dst], a, g).mWidth = lastOp.size[1]
    /\ g.deleted # {}

\* the parameters of the first Attach call for each attachment point of the
\* renderer's framebuffers: the calls of Renderer::initialize
FirstAttach(s) ==
    IF s = 1
    THEN {[attachment |-> c.attachment, type |-> "Renderbuffer", format |-> c.format,
           samples |-> c.samples] : c \in Range(RenderbufferCalls)}
    ELSE {[attachment |-> c.attachment, type |-> "Texture", format |-> c.format,
           samples |-> 0] : c \in Range(TextureCalls)}

\* C12: whatever AttachRenderbuffer, AttachTexture and ResizeAll calls
\* follow, the render target at an attachment point has the kind, the
\* internal format and the sample count of the first Attach call for it.
C12_ParamsFixedAtFirstAttach ==
    \A s \in 1..2 : \A c \in FirstAttach(s) :
        /\ TargetAt(slot[s], c.attachment, g).cls = c.type
        /\ g.obj[TargetAt(slot[s], c.attachment, g).mId].format = c.format
        /\ g.obj[TargetAt(slot[s], c.attachment, g).mId].samples = c.samples

\* the live GPU objects that are render targets
RenderTargetObjects(gl) ==
    {id \in Live(gl) : gl.obj[id].type \in {"renderbuffer", "texture"}}

\* the GPU names of the render targets the framebuffer o holds
TargetIds(o, gl) == {TargetAt(o, a, gl).mId : a \in DOMAIN o.mRenderbuffers}

\* C13: the live render-target GPU objects are exactly those attached to
\* the two framebuffers, one per attachment point, and the render-target
\* objects on the heap are exactly those the two maps refer to: every
\* target a resize replaced has been destroyed and its GPU object freed.
C13_NoLeakedTargets ==
    /\ RenderTargetObjects(g) = TargetIds(slot[1], g) \cup TargetIds(slot[2], g)
    /\ \A s \in 1..2 :
          Cardinality(TargetIds(slot[s], g)) = Cardinality(DOMAIN slot[s].mRenderbuffers)
    /\ TargetIds(slot[1], g) \cap TargetIds(slot[2], g) = {}
    /\ DOMAIN g.heap = MapAddrs(slot[1].mRenderbuffers) \cup MapAddrs(slot[2].mRenderbuffers)

\* C13 witness: two resizes to different sizes have replaced render targets.
C13_Witness ==
    /\ lastOp.op \in {"ResizeAll", "render"}
    /\ lastOp.size # InitialSize
    /\ allocOps = MaxAllocOps
    /\ Cardinality(g.deleted) > Cardinality(Attachments)

(* ------------------------- the frame of render ------------------------- *)
\* a frame has just been rendered: the trace of g is that of the last step
FrameDone == app.running /\ lastOp.op = "frame"

DrawCalls == {"glDrawElements", "glDrawArrays"}

\* the draw calls of the frame made in the part of the frame named pass
Draws(pass) ==
    {k \in DOMAIN g.calls :
        g.calls[k].call \in DrawCalls /\ g.calls[k].state.pass = pass}

\* the scene the last frame was rendered with: no event came since
Configured(i) == app.m_sceneSettings.lights[i]

\* the lights block of shading data d holds light i as configured
LightWritten(d, i) ==
    /\ d.lights[i].direction = Configured(i).direction \o <<0>>
    /\ d.lights[i].radiance = IF Configured(i).enabled
                              THEN Configured(i).radiance \o <<0>>
                              ELSE <<0, 0, 0, 0>>

\* the shading data d holds every light slot as configured
LightsWritten(d) ==
    /\ "lights" \in DOMAIN d
    /\ DOMAIN d.lights = 0..(NumLights - 1)
    /\ \A i \in 0..(NumLights - 1) : LightWritten(d, i)

\* C14: in every frame all light slots 0..NumLights-1 are written to the
\* shading uniform buffer: the buffer bound at binding point 1 at every
\* scene draw, and the buffer's contents after the frame, hold for each
\* light its configured direction, and its configured radiance if the light
\* is enabled and the zero vector if it is disabled
C14_AllLightSlotsWritten ==
    FrameDone =>
        /\ LightsWritten(g.obj[app.renderer.mShadingUB.mId].data)
        /\ \A k \in Draws("opaque") \cup Draws("transparent") :
              /\ g.calls[k].state.ubo[1] = app.renderer.mShadingUB.mId
              /\ LightsWritten(g.calls[k].state.data[1])

\* a second frame, rendered with the first light enabled and the others not
C14_Witness ==
    /\ FrameDone
    /\ app.frames = 2
    /\ Configured(0).enabled /\ ~Configured(1).enabled /\ ~Configured(2).enabled
    /\ Draws("opaque") # {}
    /\ g.obj[app.renderer.mShadingUB.mId].data.lights[0].radiance = <<1, 1, 1, 0>>
    /\ g.obj[app.renderer.mShadingUB.mId].data.lights[1].radiance = <<0, 0, 0, 0>>
    /\ g.obj[app.renderer.mShadingUB.mId].data.lights[1].direction = <<1, 0, 0, 0>>

\* the uniform buffers a draw of a part of the frame reads, by binding point
UniformsOf(pass) ==
    CASE pass = "skybox" -> [b \in {0} |-> "mSkyboxUB"]
      [] pass \in {"opaque", "transparent"} ->
            [b \in {0, 1, 2} |-> CASE b = 0 -> "mTransformUB"
                                   [] b = 1 -> "mShadingUB"
                                   [] b = 2 -> "mBaseInfoUB"]
      [] OTHER -> <<>>

\* the call k finds the buffers it reads bound, holding the host-side value
UniformsCurrent(k) ==
    \A b \in DOMAIN UniformsOf(g.calls[k].state.pass) :
        /\ b \in DOMAIN g.calls[k].state.ubo
        /\ g.calls[k].state.ubo[b]
              = app.renderer[UniformsOf(g.calls[k].state.pass)[b]].mId
        /\ "indeterminate" \notin DOMAIN g.calls[k].state.data[b]
        /\ g.calls[k].state.data[b]
              = g.calls[k].host[UniformsOf(g.calls[k].state.pass)[b]]

\* C15: Bind uploads the host-side value before it binds, and every draw
\* call of a frame is issued with the GPU copy of every uniform buffer equal
\* to the buffer's host-side value at that moment, the buffers the draw
\* reads being bound at their binding points with that value
C15_NoStaleUniforms ==
    FrameDone =>
        \A k \in DOMAIN g.calls :
            g.calls[k].call \in DrawCalls =>
                /\ g.calls[k].noted
                /\ g.calls[k].gpu = g.calls[k].host
                /\ UniformsCurrent(k)

\* a second frame after the view distance changed: its scene draws read the
\* new view matrix
C15_Witness ==
    /\ FrameDone
    /\ app.frames = 2
    /\ app.m_viewSettings.distance = ViewDistance + ZoomSpeed
    /\ \E k \in Draws("transparent") :
          /\ g.calls[k].state.data[0].viewProjectionMatrix[2].v
                = <<0, 0, -(ViewDistance + ZoomSpeed)>>
          /\ g.calls[k].state.data[2].opaquePass = 0

\* the commands of the last frame with the part of the frame they belong to
\* and the object they are issued for
StepOf(call) ==
    <<call.call, call.state.pass,
      CASE call.call = "ResizeAll" -> call.args.fb
        [] call.call = "glBindFramebuffer" -> call.args.fb
        [] call.call \in DrawCalls -> call.args.vao
        [] call.call = "glBlitNamedFramebuffer" -> call.args.read
        [] call.call = "glInvalidateNamedFramebufferData" -> call.args.fb
        [] OTHER -> 0>>

StepsDone == [k \in DOMAIN g.calls |-> StepOf(g.calls[k])]

\* C16: every call of Renderer::render performs, once each and in this
\* order, whatever the view and the scene: the resize check of the two
\* framebuffers, bind and clear of the multisampled framebuffer, the skybox
\* draw, the opaque pass over the two meshes, the transparent pass over the
\* two meshes, the unbind, the resolve of the three colour attachments, the
\* invalidation of the multisampled attachments, the full-screen composite
\* draw and the buffer swap
C16_FixedFrameSequence ==
    FrameDone =>
        StepsDone =
            <<<<"ResizeAll", "", slot[1].mId>>,
              <<"ResizeAll", "", slot[2].mId>>,
              <<"glBindFramebuffer", "clear", slot[1].mId>>,
              <<"glClear", "clear", 0>>,
              <<"glDrawElements", "skybox", app.renderer.mSkybox.mVao>>,
              <<"glDrawElements", "opaque", app.renderer.mPbrModel.mVao>>,
              <<"glDrawElements", "opaque", app.renderer.mGlass.mVao>>,
              <<"glDrawElements", "transparent", app.renderer.mPbrModel.mVao>>,
              <<"glDrawElements", "transparent", app.renderer.mGlass.mVao>>,
              <<"glBindFramebuffer", "resolve", 0>>,
              <<"glBlitNamedFramebuffer", "resolve", "GL_COLOR_ATTACHMENT0">>,
              <<"glBlitNamedFramebuffer", "resolve", "GL_COLOR_ATTACHMENT1">>,
              <<"glBlitNamedFramebuffer", "resolve", "GL_COLOR_ATTACHMENT2">>,
              <<"glInvalidateNamedFramebufferData", "resolve", slot[1].mId>>,
              <<"glDrawArrays", "composite", app.renderer.mEmptyVao.mVao>>,
              <<"glfwSwapBuffers", "composite", 0>>>>

\* a second frame, of a window resized and a scene with a light enabled
C16_Witness ==
    /\ FrameDone
    /\ app.frames = 2
    /\ app.size # InitialSize
    /\ \E i \in 0..(NumLights - 1) : Configured(i).enabled
    /\ Len(g.calls) = 16
    /\ g.calls[16].call = "glfwSwapBuffers"

\* the vertex arrays drawn in a part of the frame, in the order of the draws
DrawnIn(pass) ==
    LET InPass(x) == x.call \in DrawCalls /\ x.state.pass = pass
        drawn == SelectSeq(g.calls, InPass)
    IN  [i \in DOMAIN drawn |-> drawn[i].args.vao]

\* C17: at every draw call of the transparent pass of every frame depth
\* writing is disabled, depth testing is enabled, blending is enabled with
\* source and destination factor ONE, and the opaque-pass flag uploaded
\* last is 0; the pass draws the meshes of the opaque pass in the same order
C17_TransparentPassState ==
    FrameDone =>
        /\ \A k \in Draws("transparent") :
              /\ g.calls[k].state.depthMask = FALSE
              /\ "GL_DEPTH_TEST" \in g.calls[k].state.caps
              /\ "GL_BLEND" \in g.calls[k].state.caps
              /\ g.calls[k].state.blendFunc = <<"GL_ONE", "GL_ONE">>
              /\ g.calls[k].gpu.mBaseInfoUB.opaquePass = 0
              /\ g.calls[k].state.data[2].opaquePass = 0
        /\ DrawnIn("transparent") = DrawnIn("opaque")
        /\ DrawnIn("transparent")
              = <<app.renderer.mPbrModel.mVao, app.renderer.mGlass.mVao>>

\* a second frame: its transparent pass drew the two meshes
C17_Witness ==
    /\ FrameDone
    /\ app.frames = 2
    /\ Cardinality(Draws("transparent")) = 2
    /\ \A k \in Draws("transparent") : "GL_BLEND" \in g.calls[k].state.caps
    /\ app.renderer.mPbrModel.mVao # app.renderer.mGlass.mVao

\* C18: at the skybox draw of every frame blending, depth testing and depth
\* writing are disabled, the skybox program is in use, and the matrix
\* uploaded is the projection times the view rotation, with no translation
C18_SkyboxState ==
    FrameDone =>
        /\ Cardinality(Draws("skybox")) = 1
        /\ \A k \in Draws("skybox") :
              /\ "GL_BLEND" \notin g.calls[k].state.caps
              /\ "GL_DEPTH_TEST" \notin g.calls[k].state.caps
              /\ g.calls[k].state.depthMask = FALSE
              /\ app.renderer.mSkyboxProgram.mProgram # 0
              /\ g.calls[k].state.program = app.renderer.mSkyboxProgram.mProgram
              /\ g.calls[k].state.ubo[0] = app.renderer.mSkyboxUB.mId
              /\ Len(g.calls[k].state.data[0].skyViewProjectionMatrix) = 2
              /\ g.calls[k].state.data[0].skyViewProjectionMatrix[1]
                    = [m |-> "perspectiveFov",
                       fov |-> [radiansOf |-> app.m_viewSettings.fov],
                       width |-> lastOp.size[1], height |-> lastOp.size[2],
                       near |-> 1, far |-> 10000]
              /\ g.calls[k].state.data[0].skyViewProjectionMatrix[2]
                    = [m |-> "eulerAngleXY",
                       x |-> [radiansOf |-> app.m_viewSettings.pitch],
                       y |-> [radiansOf |-> app.m_viewSettings.yaw]]

\* a later frame: the frame before it left depth testing enabled, and the
\* transform block it left holds a translation
C18_Witness ==
    /\ FrameDone
    /\ app.frames = 2
    /\ "GL_DEPTH_TEST" \in g.caps
    /\ \E k \in Draws("skybox") :
          /\ "GL_DEPTH_TEST" \notin g.calls[k].state.caps
          /\ g.calls[k].gpu.mTransformUB.viewProjectionMatrix[2].m = "translate"

\* C19: at every draw call of the opaque pass of every frame depth testing
\* and depth writing are enabled, blending is disabled, and the opaque-pass
\* flag uploaded last is 1
C19_OpaquePassState ==
    FrameDone =>
        /\ Cardinality(Draws("opaque")) = 2
        /\ \A k \in Draws("opaque") :
              /\ "GL_DEPTH_TEST" \in g.calls[k].state.caps
              /\ g.calls[k].state.depthMask = TRUE
              /\ "GL_BLEND" \notin g.calls[k].state.caps
              /\ g.calls[k].gpu.mBaseInfoUB.opaquePass = 1
              /\ g.calls[k].state.ubo[2] = app.renderer.mBaseInfoUB.mId
              /\ g.calls[k].state.data[2].opaquePass = 1

\* a later frame: the frame before it left the flag 0 and depth writing
\* disabled, as this one did
C19_Witness ==
    /\ FrameDone
    /\ app.frames = 2
    /\ g.depthMask = FALSE
    /\ g.obj[app.renderer.mBaseInfoUB.mId].data.opaquePass = 0
    /\ \E k \in Draws("opaque") : g.calls[k].state.depthMask = TRUE

\* the commands of a frame that draw to, clear or copy attachments
TouchesAttachments(call) ==
    call.call \in DrawCalls \cup {"glClear", "glBlitNamedFramebuffer"}

\* C20: whatever window-resize events come between frames, at every draw
\* call of a frame all attachments of both framebuffers have the drawable
\* size the frame read at its top
C20_NoStaleSizes ==
    FrameDone =>
        /\ lastOp.size = app.size
        /\ \A k \in DOMAIN g.calls :
              TouchesAttachments(g.calls[k]) => g.calls[k].state.sizes = {lastOp.size}
        /\ \A s \in {1, 2} : \A a \in DOMAIN slot[s].mRenderbuffers :
              /\ TargetAt(slot[s], a, g).mWidth = lastOp.size[1]
              /\ TargetAt(slot[s], a, g).mHeight = lastOp.size[2]

\* the second frame of a run, rendered after the drawable size changed: it
\* replaced the attachments the first frame drew to
C20_Witness ==
    /\ FrameDone
    /\ app.frames = 2
    /\ app.events > 0
    /\ allocOps = MaxAllocOps
    /\ lastOp.size # InitialSize
    /\ Cardinality(g.deleted) >= 2 * Cardinality(Attachments) - 1
    /\ \E k \in Draws("composite") : g.calls[k].state.sizes = {app.size}


(* ------------------- the Environment constructor ----------------------- *)
\* the last operation constructed an Environment from an image
EnvironmentBuilt ==
    /\ cls = "Environment"
    /\ lastOp.op = "Ctor"
    /\ lastOp.dst \in Slots
    /\ slot[lastOp.dst].cls = "Environment"

BuiltEnvironment == slot[lastOp.dst]

IsDispatch(c) == c.call = "glDispatchCompute"

\* a dispatch that writes the texture named id
WritesTo(c, id) == IsDispatch(c) /\ c.args.image.texture = id

\* the dispatches of the prefilter pass: those that write the filtered cubemap
PrefilterDispatches == SelectSeq(g.calls, LAMBDA c : WritesTo(c, BuiltEnvironment.mId))

\* the context is as glFinish left it: nothing was created, deleted, bound
\* or issued since
NothingSince(finish) ==
    finish.call = "glFinish" /\ finish.args = [Issued(g) EXCEPT !.commands = Len(g.calls)]

\* C21: the constructor of Environment issues, in this order, the
\* equirect-to-cube dispatch, the mipmap generation of the unfiltered
\* cubemap, the copy of its level 0 into the filtered cubemap, the prefilter
\* dispatches by ascending level, the irradiance dispatch (reading the
\* filtered cubemap), the BRDF-LUT dispatch and glFinish, and no GPU command
\* after glFinish
C21_EnvironmentWorkOrder ==
    EnvironmentBuilt =>
        LET n    == Len(g.calls)
            env  == BuiltEnvironment
            src  == g.calls[1].args.image.texture
        IN  /\ n >= 6
            /\ IsDispatch(g.calls[1])
            /\ src \notin {0, env.mId, env.mIrmap.mId, env.mSpBrdfLut.mId}
            /\ g.calls[2].call = "glGenerateTextureMipmap"
            /\ g.calls[2].args.texture = src
            /\ g.calls[3].call = "glCopyImageSubData"
            /\ g.calls[3].args.src = src /\ g.calls[3].args.srcLevel = 0
            /\ g.calls[3].args.dst = env.mId /\ g.calls[3].args.dstLevel = 0
            /\ \A i \in 4..(n - 3) :
                  /\ WritesTo(g.calls[i], env.mId)
                  /\ g.calls[i].args.texture = src
                  /\ i > 4 => g.calls[i].args.image.level > g.calls[i - 1].args.image.level
            /\ WritesTo(g.calls[n - 2], env.mIrmap.mId)
            /\ g.calls[n - 2].args.texture = env.mId
            /\ WritesTo(g.calls[n - 1], env.mSpBrdfLut.mId)
            /\ NothingSince(g.calls[n])

C21_Witness ==
    /\ EnvironmentBuilt
    /\ Len(PrefilterDispatches) >= 2
    /\ g.calls[Len(g.calls)].call = "glFinish"
    /\ BuiltEnvironment.mIrmap.mId # 0

\* the edge of mip level k of the claim: half the base at level 1, then halved
RECURSIVE LevelSize(_, _)
LevelSize(base, k) == IF k <= 1 THEN base \div 2 ELSE LevelSize(base, k - 1) \div 2

\* the fraction r equals num / den
IsRatio(r, num, den) == r.num * den = num * r.den

\* C22: with L the level count of the filtered cubemap, the prefilter pass
\* issues exactly one dispatch per level 1..L; the one for level k has level
\* k bound for writing, roughness k / max(L-1, 1) and a grid of
\* max(1, s_k/32) x max(1, s_k/32) x 6 groups, s_1 half the base size and
\* s_(k+1) = s_k / 2
C22_PrefilterDispatches ==
    EnvironmentBuilt =>
        LET L == BuiltEnvironment.mLevels
            P == PrefilterDispatches
        IN  /\ Len(P) = L
            /\ \A k \in 1..L :
                  /\ P[k].args.image.level = k
                  /\ 0 \in DOMAIN P[k].args.uniforms
                  /\ IsRatio(P[k].args.uniforms[0], k, Max(L - 1, 1))
                  /\ P[k].args.groups =
                        <<Max(1, LevelSize(BuiltEnvironment.mWidth, k) \div 32),
                          Max(1, LevelSize(BuiltEnvironment.mWidth, k) \div 32), 6>>

C22_Witness ==
    /\ EnvironmentBuilt
    /\ Len(PrefilterDispatches) >= 10
    /\ PrefilterDispatches[6].args.groups = <<1, 1, 6>>
    /\ PrefilterDispatches[1].args.groups = <<16, 16, 6>>

\* C29: every dispatch of the prefilter pass has a level bound that the
\* filtered cubemap has, in 1..L-1, and a roughness of at most 1
C29_PrefilterLevelsExist ==
    EnvironmentBuilt =>
        \A i \in DOMAIN PrefilterDispatches :
            LET d == PrefilterDispatches[i].args
            IN  /\ d.complete
                /\ d.image.level \in 1..(BuiltEnvironment.mLevels - 1)
                /\ d.uniforms[0].num <= d.uniforms[0].den


(* ------------------------ default level count -------------------------- *)
\* the least k with 2^k >= n
RECURSIVE CeilLog2(_)
CeilLog2(n) == IF n <= 1 THEN 0 ELSE 1 + CeilLog2((n + 1) \div 2)

\* ceil(1 + log2(n))
CeilLevels(n) == 1 + CeilLog2(n)

\* the last operation constructed a Texture of a given size
TextureBuilt ==
    /\ cls = "Texture"
    /\ lastOp.op = "Ctor"
    /\ lastOp.size # <<>>

\* C23: a texture of width and height >= 1 created without a level count
\* has ceil(1 + log2(max(width, height))) levels, 11 for 1024 x 1024; an
\* explicit positive level count is used unchanged
C23_DefaultLevelCount ==
    /\ TextureBuilt =>
          slot[lastOp.dst].mLevels =
              IF lastOp.levels > 0 THEN lastOp.levels
              ELSE CeilLevels(Max(lastOp.size[1], lastOp.size[2]))
    /\ EnvironmentBuilt =>
          /\ BuiltEnvironment.mWidth = 1024 /\ BuiltEnvironment.mHeight = 1024
          /\ BuiltEnvironment.mLevels = 11


(* ------------------------------ mouse drags ---------------------------- *)
\* the step is a cursor move
CursorMove == lastOp'.op = "mousePositionCallback"

\* the two buttons of the claim that are held down
HeldButtons == app.buttons \cap {"GLFW_MOUSE_BUTTON_1", "GLFW_MOUSE_BUTTON_2"}

\* the step adds OrbitSpeed x the movement of the cursor to the view only
RotatesView ==
    /\ app'.m_viewSettings =
          [app.m_viewSettings EXCEPT
              !.yaw = @ + OrbitSpeed * (app'.cursor[1] - app.cursor[1]),
              !.pitch = @ + OrbitSpeed * (app'.cursor[2] - app.cursor[2])]
    /\ app'.m_sceneSettings = app.m_sceneSettings

\* the step adds it to the scene only
RotatesScene ==
    /\ app'.m_sceneSettings =
          [app.m_sceneSettings EXCEPT
              !.yaw = @ + OrbitSpeed * (app'.cursor[1] - app.cursor[1]),
              !.pitch = @ + OrbitSpeed * (app'.cursor[2] - app.cursor[2])]
    /\ app'.m_viewSettings = app.m_viewSettings

\* C24: for any sequence of presses and releases of the buttons 1 and 2, a
\* cursor move rotates the view while button 1 is down and the scene while
\* button 2 is down (one of the two when both are), and changes no view or
\* scene setting when neither is down
C24_DragFollowsHeldButton ==
    [][CursorMove =>
          CASE HeldButtons = {} ->
                  /\ app'.m_viewSettings = app.m_viewSettings
                  /\ app'.m_sceneSettings = app.m_sceneSettings
            [] HeldButtons = {"GLFW_MOUSE_BUTTON_1"} -> RotatesView
            [] HeldButtons = {"GLFW_MOUSE_BUTTON_2"} -> RotatesScene
            [] OTHER -> RotatesView \/ RotatesScene]_vars


(* ------------------------------ light keys ----------------------------- *)
LightKeys == {"GLFW_KEY_F1", "GLFW_KEY_F2", "GLFW_KEY_F3"}

\* the number of the light the claim gives each key
ClaimedLight(key) ==
    IF key = "GLFW_KEY_F1" THEN 0 ELSE IF key = "GLFW_KEY_F2" THEN 1 ELSE 2

\* the step delivers a key event; its key and action are in lastOp'.names
KeyEvent == lastOp'.op = "keyCallback"

\* the flags are those of the constructor, flipped once per press
FlagsFollowPresses ==
    app.running =>
        \A key \in LightKeys :
            app.m_sceneSettings.lights[ClaimedLight(key)].enabled =
                (SceneInit.lights[ClaimedLight(key)].enabled = (app.presses[key] % 2 = 0))

\* C25: a press of F1, F2 or F3 flips the enabled flag of light 0, 1 or 2
\* and changes nothing else of the scene and view settings; releases,
\* repeats and other keys change no flag; two presses of a key restore it
C25_KeyTogglesOneLight ==
    [][/\ KeyEvent =>
             /\ app'.m_viewSettings = app.m_viewSettings
             /\ app'.m_sceneSettings =
                   IF lastOp'.names[2] = "GLFW_PRESS" /\ lastOp'.names[1] \in LightKeys
                   THEN [app.m_sceneSettings EXCEPT
                            !.lights[ClaimedLight(lastOp'.names[1])].enabled = ~@]
                   ELSE app.m_sceneSettings
       /\ FlagsFollowPresses']_vars

C25_Witness ==
    /\ app.running
    /\ lastOp.op = "keyCallback"
    /\ lastOp.names = <<"GLFW_KEY_F2", "GLFW_PRESS">>
    /\ app.presses["GLFW_KEY_F2"] = 2
    /\ ~app.m_sceneSettings.lights[1].enabled


(* ---------------------------- Application::run ------------------------- *)
EventOps ==
    {"keyCallback", "mouseScrollCallback", "mouseButtonCallback",
     "mousePositionCallback", "framebufferSizeCallback", "windowClose"}

\* C26: the loop renders a frame and then polls events for as long as the
\* close request is not set; once it is set no further frame is rendered;
\* shutdown is called when the request is set, after the last frame, and
\* nothing follows it; nothing but the close request ends the loop
C26_LoopEndsOnCloseRequest ==
    [][/\ lastOp'.op = "frame" => app.phase = "loop" /\ ~app.shouldClose
       /\ lastOp'.op \in EventOps => app.phase = "loop" /\ app.frames >= 1
       /\ lastOp'.op = "shutdown" =>
             app.phase = "loop" /\ app.shouldClose /\ app.frames >= 1
       /\ (app.phase = "loop" /\ app'.phase # "loop") =>
             lastOp'.op = "shutdown" /\ app'.phase = "done"
       /\ app.phase # "done"]_vars


C26_Witness ==
    /\ app.phase = "done"
    /\ lastOp.op = "shutdown"
    /\ app.frames = 2
    /\ app.presses["GLFW_KEY_ESCAPE"] = 1


\* the failures of initialize the claim names
ClaimedFailures == {"no window", "mFramebuffer incomplete", "mResolveFramebuffer incomplete"}

\* C27: initialize throws and returns no window when the window cannot be
\* created or one of the two framebuffers is not complete; run then performs
\* no setup, renders no frame and calls no shutdown
C27_InitializeFailure ==
    [][/\ (lastOp'.op = "initialize" /\ lastOp'.names[1] \in ClaimedFailures) =>
             /\ ~lastOp'.ok
             /\ app'.phase = "failed"
             /\ app'.error # ""
             /\ app'.m_window = "nullptr"
             /\ app'.renderer = RendererMembers
             /\ app'.frames = 0
       /\ app.phase # "failed"]_vars

C27_Witness ==
    /\ app.phase = "failed"
    /\ lastOp.op = "initialize"
    /\ lastOp.names = <<"mResolveFramebuffer incomplete">>
    /\ slot[2].cls = "Framebuffer"


(* --------------------------- Renderer::shutdown ------------------------ *)
\* C30: when shutdown has returned every GPU object that initialize, setup
\* and render created is freed: the framebuffers and their attachments, the
\* uniform buffers, the mesh buffers and vertex arrays, the material
\* textures, the environment textures, every shader and every program
C30_ShutdownFreesEverything ==
    app.phase = "done" => Live(g) = {}


(* --------------------------- Framebuffer moves ------------------------- *)
\* the step moves the Framebuffer of slot lastOp'.src into another slot
FramebufferMoved ==
    /\ cls = "Framebuffer"
    /\ lastOp'.op \in {"MoveCtor", "MoveAssign"}
    /\ lastOp'.dst # lastOp'.src

\* C28: a move of a Framebuffer transfers its whole state: the destination
\* has the identifier, the attachments and the creation parameters of the
\* source, and the source is left with no identifier and no attachments
C28_FramebufferMoveTransfersAll ==
    [][FramebufferMoved =>
          /\ slot'[lastOp'.dst].mId = slot[lastOp'.src].mId
          /\ slot'[lastOp'.dst].mRenderbuffers = slot[lastOp'.src].mRenderbuffers
          /\ slot'[lastOp'.dst].mRbParams = slot[lastOp'.src].mRbParams
          /\ slot'[lastOp'.src].mId = 0
          /\ slot'[lastOp'.src].mRenderbuffers = <<>>]_vars


(* --------------------------- the resolve ------------------------------- *)
\* the blits of the last frame, in the order they were issued
Blits == SelectSeq(g.calls, LAMBDA c : c.call = "glBlitNamedFramebuffer")

\* the size of the storage attached to the framebuffer object fb at a
AttachedSize(fb, a) ==
    IF fb \in DOMAIN g.obj /\ a \in DOMAIN g.obj[fb].attach
    THEN StorageSize(g, g.obj[fb].attach[a]) ELSE <<0, 0>>

\* C31: Framebuffer::Resolve performs, for each pair of its list and in list
\* order, exactly one blit, issued while the read buffer of the source
\* framebuffer is the pair's source attachment and the draw buffer of the
\* destination framebuffer is the pair's destination attachment, over the
\* full extent of both targets; in render the colour attachments 0, 1 and 2
\* of the multisampled framebuffer each go to the same-numbered attachment
\* of the resolve framebuffer
C31_ResolveBlits ==
    FrameDone =>
        /\ Len(Blits) = Len(ResolveList)
        /\ \A i \in DOMAIN Blits :
              /\ ResolveList[i].attach1 = ColorAttachments[i]
              /\ ResolveList[i].attach2 = ColorAttachments[i]
              /\ Blits[i].args.src = slot[1].mId
              /\ Blits[i].args.dst = slot[2].mId
              /\ Blits[i].args.read = ResolveList[i].attach1
              /\ Blits[i].args.draw = <<ResolveList[i].attach2>>
              /\ Blits[i].args.srcP1 = AttachedSize(slot[1].mId, ResolveList[i].attach1)
              /\ Blits[i].args.dstP1 = AttachedSize(slot[2].mId, ResolveList[i].attach2)
              /\ Blits[i].args.srcP1 = <<lastOp.size[1], lastOp.size[2]>>
              /\ Blits[i].args.mask = "GL_COLOR_BUFFER_BIT"

\* a second frame, in a window resized: the frame before it left the read
\* buffer at the last attachment and the targets at another size
C31_Witness ==
    /\ FrameDone
    /\ app.frames = 2
    /\ <<lastOp.size[1], lastOp.size[2]>> # InitialSize
    /\ Len(Blits) = 3
    /\ Blits[1].args.read = "GL_COLOR_ATTACHMENT0"
    /\ Blits[3].args.dstP1 = <<lastOp.size[1], lastOp.size[2]>>
    /\ ReadBufferOf(g, slot[1].mId) = "GL_COLOR_ATTACHMENT2"


(* ------------------- the shared program of PbrMesh --------------------- *)
\* the names a step created that are program objects afterwards
ProgramsCreated ==
    {i \in (g.next + 1)..g'.next : i \in DOMAIN g'.obj /\ g'.obj[i].type = "program"}

\* the programs in use at the draws of the two scene passes of a trace
SceneDrawPrograms(calls) ==
    {calls[k].state.program :
        k \in {j \in DOMAIN calls : /\ calls[j].call \in DrawCalls
                                    /\ calls[j].state.pass \in {"opaque", "transparent"}}}

\* C32: across the PbrMesh::Render calls of all frames, on either PbrMesh
\* of the renderer, the shared PBR program is built by the first call only:
\* a frame that finds it usable builds no program and leaves it the same
\* object, and every scene draw is made with that one program in use
C32_PbrProgramBuiltOnce ==
    [][lastOp'.op = "frame" =>
          /\ ShaderProgramIsUsable(app'.pbrProgram)
          /\ SceneDrawPrograms(g'.calls) = {app'.pbrProgram.mProgram}
          /\ IF ShaderProgramIsUsable(app.pbrProgram)
             THEN app'.pbrProgram = app.pbrProgram /\ ProgramsCreated = {}
             ELSE ProgramsCreated = {app'.pbrProgram.mProgram}]_vars

\* a second frame: its four Render calls found the program of the first
C32_Witness ==
    /\ FrameDone
    /\ app.frames = 2
    /\ ShaderProgramIsUsable(app.pbrProgram)
    /\ SceneDrawPrograms(g.calls) = {app.pbrProgram.mProgram}
    /\ Cardinality(Draws("opaque") \cup Draws("transparent")) = 4
    /\ Cardinality({i \in DOMAIN g.obj : g.obj[i].type = "program"}) = 3


(* ---------------------------- the clear -------------------------------- *)
\* the clears of the last frame
Clears == SelectSeq(g.calls, LAMBDA c : c.call = "glClear")

\* C33: in every frame, those that follow a transparent pass which left
\* depth writing disabled included, depth writing is enabled when the
\* multisampled framebuffer is cleared, so that the clear of colour and
\* depth takes effect on the depth buffer
C33_ClearWritesDepth ==
    FrameDone =>
        /\ Len(Clears) = 1
        /\ Clears[1].state.framebuffer = slot[1].mId
        /\ Clears[1].state.depthMask = TRUE
        /\ Clears[1].args.mask = {"GL_COLOR_BUFFER_BIT", "GL_DEPTH_BUFFER_BIT"}
        /\ Clears[1].args.written = Clears[1].args.mask

\* a second frame: the frame before it ended, as this one, with depth
\* writing disabled by its transparent pass
C33_Witness ==
    /\ FrameDone
    /\ app.frames = 2
    /\ g.depthMask = FALSE
    /\ Len(Clears) = 1
    /\ "GL_DEPTH_BUFFER_BIT" \in Clears[1].args.written
    /\ \E k \in Draws("transparent") : g.calls[k].state.depthMask = FALSE


(* ------------------------- the draw buffers ---------------------------- *)
\* the renderer is initialized and not shut down
RendererUp == app.phase \in {"initialized", "loop"}

\* the draws of the last frame into the multisampled framebuffer
SceneDraws == Draws("skybox") \cup Draws("opaque") \cup Draws("transparent")

\* C34: after initialize the draw-buffer list of the multisampled
\* framebuffer is COLOR_ATTACHMENT0, COLOR_ATTACHMENT1, COLOR_ATTACHMENT2 in
\* that order, at every scene draw of every frame: ResizeAll, Resolve and
\* InvalidateAttachments leave it alone, Resolve changing the read buffer of
\* the source and the draw buffer of the destination only
C34_DrawBuffersKept ==
    /\ RendererUp => DrawBuffersOf(g, slot[1].mId) = ColorAttachments
    /\ FrameDone =>
          /\ Cardinality(SceneDraws) = 5
          /\ \A k \in SceneDraws :
                /\ g.calls[k].state.framebuffer = slot[1].mId
                /\ g.calls[k].state.drawBuffers = ColorAttachments
          /\ DrawBuffersOf(g, slot[2].mId) = <<ResolveList[Len(ResolveList)].attach2>>

\* a second frame, in a window resized: the attachments were made anew and
\* the first frame's Resolve and InvalidateAttachments came before its draws
C34_Witness ==
    /\ FrameDone
    /\ app.frames = 2
    /\ <<lastOp.size[1], lastOp.size[2]>> # InitialSize
    /\ Cardinality(SceneDraws) = 5
    /\ \A k \in SceneDraws : Len(g.calls[k].state.drawBuffers) = 3
    /\ ReadBufferOf(g, slot[1].mId) = "GL_COLOR_ATTACHMENT2"
    /\ \E k \in DOMAIN g.calls : g.calls[k].call = "glInvalidateNamedFramebufferData"


(* ---------------------- the uniform binding points --------------------- *)
\* the buffer bound at a binding point when the command k was issued
BoundAt(k, index) ==
    IF index \in DOMAIN g.calls[k].state.ubo THEN g.calls[k].state.ubo[index] ELSE 0

\* the draws of the two meshes in the two scene passes
MeshDraws == Draws("opaque") \cup Draws("transparent")

\* C35: uniform binding point 0 is shared by two buffers and holds the right
\* one at every draw: in every frame the skybox uniform buffer when the
\* skybox is drawn and the transform uniform buffer when a scene mesh is
\* drawn, while point 1 holds the shading buffer and point 2 the base-info
\* buffer at every scene-mesh draw
C35_BindingPointZeroShared ==
    FrameDone =>
        /\ app.renderer.mSkyboxUB.mId # 0
        /\ app.renderer.mTransformUB.mId # 0
        /\ app.renderer.mSkyboxUB.mId # app.renderer.mTransformUB.mId
        /\ Cardinality(Draws("skybox")) = 1
        /\ \A k \in Draws("skybox") :
              /\ BoundAt(k, 0) = app.renderer.mSkyboxUB.mId
              /\ "skyViewProjectionMatrix" \in DOMAIN g.calls[k].state.data[0]
        /\ Cardinality(MeshDraws) = 4
        /\ \A k \in MeshDraws :
              /\ BoundAt(k, 0) = app.renderer.mTransformUB.mId
              /\ "modelMatrix" \in DOMAIN g.calls[k].state.data[0]
              /\ BoundAt(k, 1) = app.renderer.mShadingUB.mId
              /\ "lights" \in DOMAIN g.calls[k].state.data[1]
              /\ BoundAt(k, 2) = app.renderer.mBaseInfoUB.mId
              /\ "opaquePass" \in DOMAIN g.calls[k].state.data[2]

\* a second frame: the frame before it left the transform buffer at point
\* 0, and its skybox was drawn with the skybox buffer there
C35_Witness ==
    /\ FrameDone
    /\ app.frames = 2
    /\ g.ubo[0] = app.renderer.mTransformUB.mId
    /\ \E k \in Draws("skybox") : BoundAt(k, 0) = app.renderer.mSkyboxUB.mId
    /\ \E k \in Draws("transparent") : BoundAt(k, 0) = app.renderer.mTransformUB.mId
    /\ Cardinality({app.renderer[u].mId : u \in UniformBuffers}) = 4


(* ------------------------- the camera distance ------------------------- *)
\* the translation along z of the view matrix a draw of the last frame was
\* made with: minus the distance handed to the renderer
ViewTranslationZ(k) == g.calls[k].state.data[0].viewProjectionMatrix[2].v[3]

\* C36: after any sequence of scroll events the camera distance stays
\* strictly positive: the distance the application holds, and the distance
\* every frame is rendered with, never reach zero or a negative value
C36_DistancePositive ==
    /\ app.m_viewSettings.distance > 0
    /\ FrameDone => \A k \in MeshDraws : ViewTranslationZ(k) < 0

====
